---- MODULE Spec2Model ----
(***************************************************************************)
(* Model of the AISEO multi-LLM query service: the Flask backend           *)
(* (src/backend/app.py), the provider adapters (src/run.py) and the        *)
(* response analyzer (src/analyzer.py).                                    *)
(*                                                                         *)
(* Conventions.                                                            *)
(*  - A Python value that may be None is a sequence of length <= 1:        *)
(*    <<>> is None and <<v>> is the value v.                               *)
(*  - A Python string that the code inspects (startswith, lower) is a      *)
(*    sequence of tokens, so that a prefix test is a test on the value.    *)
(*  - A Python dict is a function whose DOMAIN is the set of its keys.     *)
(*  - The outcome of a call is [kind |-> "return", value |-> v] or         *)
(*    [kind |-> "raise", exc |-> e].                                       *)
(*  - Exceptions are those that derive from Exception; print and str do    *)
(*    not fail.  socketio.emit and the creation of the analysis CSV can.   *)
(*  - A request body is a JSON object.                                     *)
(***************************************************************************)
EXTENDS Integers, Sequences, FiniteSets, TLC

VARIABLES
    dotenv,                 \* the .env file: variable -> None or its value
    environ,                \* os.environ of the server process
    api_keys,               \* run.py:91, module global set at import
    configured_providers,   \* run.py:100, module global set at import
    installed,              \* run.py:41-44, has_openai / has_anthropic / has_google
    query_results,          \* app.py:31, job id -> job record
    threads,                \* job id -> locals of its process_query_async thread
    rooms,                  \* job id -> events emitted to room query_<id>
    clock,                  \* datetime.now()
    response,               \* the answer of the HTTP handler that is returning
    unit_in,                \* arguments of the last direct call of one function
    unit_out                \* what that call returned or raised

vars == <<dotenv, environ, api_keys, configured_providers, installed,
          query_results, threads, rooms, clock, response, unit_in, unit_out>>

-----------------------------------------------------------------------------
(* Bounds *)

MaxJobs == 1        \* jobs submitted in one behaviour
MaxClock == 1       \* the last value datetime.now() takes

-----------------------------------------------------------------------------
(* Python values *)

None == <<>>
Some(v) == <<v>>
IsNone(o) == o = <<>>
Val(o) == o[1]

\* str.startswith
startswith(s, prefix) ==
    /\ Len(prefix) <= Len(s)
    /\ SubSeq(s, 1, Len(prefix)) = prefix

lowerToken(t) ==
    CASE t = "TRUE" -> "true"
      [] t = "True" -> "true"
      [] t = "FALSE" -> "false"
      [] OTHER -> t

\* str.lower
lower(s) == [i \in DOMAIN s |-> lowerToken(s[i])]

\* Truthiness of an optional string: None and '' are falsy.
truthy(o) == ~IsNone(o) /\ Val(o) # <<>>

Return(v) == [kind |-> "return", value |-> v]
Raise(e) == [kind |-> "raise", exc |-> e]

-----------------------------------------------------------------------------
(* Environment and provider registry *)

EnvVars ==
    {"OPENAI_API_KEY", "ANTHROPIC_API_KEY", "PERPLEXITY_API_KEY",
     "GOOGLE_API_KEY", "GOOGLE_SEARCH_API_KEY", "GOOGLE_SEARCH_CX",
     "ANALYZE_RESPONSES"}

\* The placeholder values the .env template of run.py writes, and one real key.
TemplateOpenAI == <<"sk-", "your", "-", "openai-key-here">>
TemplateAnthropic == <<"sk-", "ant-", "your", "-", "anthropic-key-here">>
TemplatePerplexity == <<"pplx-", "your", "-", "perplexity-key-here">>
TemplateGoogle == <<"your", "-", "google-key-here">>
RealKey == <<"k3y">>

\* os.getenv(name) and os.getenv(name, default)
getenv(env, name) == env[name]
getenvDefault(env, name, default) ==
    IF IsNone(env[name]) THEN default ELSE Val(env[name])

\* load_dotenv(override=True): every variable of the file overrides the
\* process environment; a variable the file does not name is left alone.
load_dotenv(env, file) ==
    [v \in EnvVars |-> IF IsNone(file[v]) THEN env[v] ELSE file[v]]

ReadApiKeys(env) ==
    [openai |-> getenv(env, "OPENAI_API_KEY"),
     anthropic |-> getenv(env, "ANTHROPIC_API_KEY"),
     perplexity |-> getenv(env, "PERPLEXITY_API_KEY"),
     google |-> getenv(env, "GOOGLE_API_KEY"),
     google_search |-> getenv(env, "GOOGLE_SEARCH_API_KEY"),
     google_cx |-> getenv(env, "GOOGLE_SEARCH_CX")]

\* The test of app.py:55 and run.py:108 on one key.
KeyConfigured(key) ==
    /\ truthy(key)
    /\ ~startswith(Val(key), <<"your", "-">>)
    /\ ~startswith(Val(key), <<"sk-", "your">>)
    /\ ~startswith(Val(key), <<"pplx-", "your">>)

\* The loop over api_keys and the google_search test that follows it; the
\* result is a list in the order the code appends.
ConfiguredProviders(keys) ==
    LET Keep(p) == KeyConfigured(keys[p])
    IN  SelectSeq(<<"openai", "anthropic", "perplexity", "google">>, Keep)
        \o (IF truthy(keys.google_search) /\ truthy(keys.google_cx)
            THEN <<"google_search">> ELSE <<>>)

\* init_services(): reload the file, then list the configured providers.
init_services(env) == ConfiguredProviders(ReadApiKeys(env))

\* A variant of AnalyzeEnabled with the default that get_providers uses.
AnalyzeEnabledByDefault(env) ==
    lower(getenvDefault(env, "ANALYZE_RESPONSES", <<"true">>)) = <<"true">>

\* ResponseAnalyzer.__init__: analyze_enabled
AnalyzeEnabled(env) ==
    lower(getenvDefault(env, "ANALYZE_RESPONSES", <<"false">>)) = <<"true">>

Range(s) == {s[i] : i \in DOMAIN s}

InList(x, s) == \E i \in DOMAIN s : s[i] = x

-----------------------------------------------------------------------------
(* Provider adapters: FixedLLMTester, run.py:133-406 *)

\* FixedLLMTester.__init__ copies the module globals.
NewTester(providers, keys, libs) ==
    [configured_providers |-> providers,
     api_keys |-> keys,
     has_openai |-> libs.openai,
     has_anthropic |-> libs.anthropic,
     has_google |-> libs.google]

\* The two result shapes the adapters build.
SuccessResult(name, content, model) ==
    [provider |-> name, response |-> content, model |-> model, success |-> TRUE]
ErrorResult(name, msg) == [provider |-> name, error |-> msg]

ImportError(msg) == [type |-> "ImportError", msg |-> msg]
OtherError(type, msg) == [type |-> type, msg |-> msg]

\* except Exception: every error type of the model derives from Exception.
IsException(e) == e.type \in {"ImportError", "ValueError", "APIError", "TypeError",
                              "ConnectionError", "JSONDecodeError", "IndexError"}

\* A variant of CatchAll with the narrower clause "except ImportError as e".
CatchImportError(name, body) ==
    IF body.kind = "raise" /\ body.exc.type = "ImportError"
    THEN Return(ErrorResult(name, body.exc.msg))
    ELSE body

\* try: body / except Exception as e: return {'provider': name, 'error': str(e)}
CatchAll(name, body) ==
    IF body.kind = "raise" /\ IsException(body.exc)
    THEN Return(ErrorResult(name, body.exc.msg))
    ELSE body

\* int(openai_version.split('.')[0]): the version is its dot-separated parts.
MajorVersion(version) ==
    CASE version[1] = "1" -> Return(1)
      [] version[1] = "0" -> Return(0)
      [] OTHER -> Raise(OtherError("ValueError", <<"invalid literal for int()">>))

\* One chat completion: the vendor call returns a message and a model name, or
\* raises.
ChatResult(name, call) ==
    IF call.kind = "raise" THEN call
    ELSE Return(SuccessResult(name, call.value.content, call.value.model))

\* test_openai, run.py:143-213.  w describes what the library and the vendor
\* do during this call.
test_openai(tester, prompt, w) ==
    IF ~InList("openai", tester.configured_providers) \/ ~tester.has_openai
    THEN Return(ErrorResult("OpenAI", <<"Not configured or library not installed">>))
    ELSE
      LET legacy == ChatResult("OpenAI", w.legacy_call)
          modern ==
            LET inner == IF ~w.client_import_ok
                         THEN Raise(ImportError(<<"cannot import name OpenAI">>))
                         ELSE ChatResult("OpenAI", w.call)
            IN  IF inner.kind = "raise" /\ inner.exc.type = "ImportError"
                THEN legacy
                ELSE inner
          major == MajorVersion(w.version)
          body ==
            IF ~w.import_ok THEN Raise(ImportError(<<"No module named openai">>))
            ELSE IF major.kind = "raise" THEN major
            ELSE IF major.value >= 1 THEN modern
            ELSE legacy
      IN  CatchAll("OpenAI", body)

\* test_anthropic, run.py:215-243
test_anthropic(tester, prompt, w) ==
    IF ~InList("anthropic", tester.configured_providers) \/ ~tester.has_anthropic
    THEN Return(ErrorResult("Anthropic", <<"Not configured or library not installed">>))
    ELSE
      LET body ==
            IF ~w.import_ok THEN Raise(ImportError(<<"No module named anthropic">>))
            ELSE ChatResult("Anthropic", w.call)
      IN  CatchAll("Anthropic", body)

\* test_perplexity, run.py:245-291
test_perplexity(tester, prompt, w) ==
    IF ~InList("perplexity", tester.configured_providers)
    THEN Return(ErrorResult("Perplexity", <<"Not configured">>))
    ELSE
      LET required ==
            Return(ErrorResult("Perplexity",
                   <<"OpenAI library v1.x required for Perplexity API">>))
          modern ==
            LET inner == IF ~w.client_import_ok
                         THEN Raise(ImportError(<<"cannot import name OpenAI">>))
                         ELSE ChatResult("Perplexity", w.call)
            IN  IF inner.kind = "raise" /\ inner.exc.type = "ImportError"
                THEN required
                ELSE inner
          major == MajorVersion(w.version)
          body ==
            IF ~w.import_ok THEN Raise(ImportError(<<"No module named openai">>))
            ELSE IF major.kind = "raise" THEN major
            ELSE IF major.value >= 1 THEN modern
            ELSE required
      IN  CatchAll("Perplexity", body)

\* test_google, run.py:293-355.  The model name in the result is the
\* configured one, not the vendor's.
test_google(tester, prompt, w) ==
    IF ~InList("google", tester.configured_providers)
    THEN Return(ErrorResult("Google", <<"Not configured">>))
    ELSE IF ~tester.has_google
    THEN Return(ErrorResult("Google", <<"Google library not installed">>))
    ELSE
      LET GenResult(call, model) ==
            IF call.kind = "raise" THEN call
            ELSE Return(SuccessResult("Google", call.value.content, model))
          new == IF ~w.import_ok
                 THEN Raise(ImportError(<<"cannot import name genai">>))
                 ELSE GenResult(w.call, "gemini-2.5-flash")
          old == IF ~w.legacy_import_ok
                 THEN Raise(ImportError(<<"No module named google.generativeai">>))
                 ELSE GenResult(w.legacy_call, "gemini-1.5-flash")
          fallback ==
            IF old.kind = "raise" /\ old.exc.type = "ImportError"
            THEN Return(ErrorResult("Google",
                 <<"Google library not installed. Install with: pip install google-genai">>))
            ELSE CatchAll("Google", old)
      IN  IF new.kind = "raise" /\ new.exc.type = "ImportError"
          THEN fallback
          ELSE CatchAll("Google", new)

\* dict.get(key, default)
Get(d, key, default) == IF key \in DOMAIN d THEN d[key] ELSE default

\* str(response.status_code)
StatusText(code) ==
    CASE code = 200 -> "200"
      [] code = 403 -> "403"
      [] code = 429 -> "429"
      [] OTHER -> "500"

\* A variant of SearchHit that copies the item as the API sent it.
SearchHitAsSent(item) == item

\* One search hit, run.py:388-392
SearchHit(item) ==
    [title |-> Get(item, "title", <<"No title">>),
     link |-> Get(item, "link", <<>>),
     snippet |-> Get(item, "snippet", <<"No description available">>)]

\* test_google_search, run.py:357-406.  w.http is what requests.get does: it
\* raises, or returns a response with a status code, a text and a body that
\* response.json() parses or fails to parse.
test_google_search(tester, prompt, w) ==
    IF ~InList("google_search", tester.configured_providers)
    THEN Return(ErrorResult("Google Search", <<"Not configured">>))
    ELSE
      LET body ==
            IF ~w.import_ok THEN Raise(ImportError(<<"No module named requests">>))
            ELSE IF w.http.kind = "raise" THEN w.http
            ELSE IF w.http.value.status_code # 200
            THEN Return(ErrorResult("Google Search",
                   <<"API returned status ", StatusText(w.http.value.status_code), ": ">>
                   \o w.http.value.text))
            ELSE IF w.http.value.json.kind = "raise" THEN w.http.value.json
            ELSE
              LET data == w.http.value.json.value
                  items == Get(data, "items", <<>>)
                  search_results == [i \in DOMAIN items |-> SearchHit(items[i])]
              IN  Return([provider |-> "Google Search",
                          response |-> search_results,
                          query |-> prompt,
                          total_results |->
                              Get(Get(data, "searchInformation", <<>>),
                                  "totalResults", <<"0">>),
                          success |-> TRUE])
      IN  CatchAll("Google Search", body)

\* The dispatch of app.py:161-171: None for an identifier that is not one of
\* the five.
KnownProviders == {"openai", "anthropic", "google", "perplexity", "google_search"}

CallAdapter(tester, provider, prompt, w) ==
    CASE provider = "openai" -> test_openai(tester, prompt, w)
      [] provider = "anthropic" -> test_anthropic(tester, prompt, w)
      [] provider = "google" -> test_google(tester, prompt, w)
      [] provider = "perplexity" -> test_perplexity(tester, prompt, w)
      [] provider = "google_search" -> test_google_search(tester, prompt, w)
      [] OTHER -> Return(None)

-----------------------------------------------------------------------------
(* JSON text of the secondary model, as a sequence of tokens *)

Whitespace == {"\n", " "}
\* The markdown code fence (three backquotes), bare and followed by 'json'.
Fence == "<fence>"
FenceJson == "<fence>json"
Structural == {"{", "}", "[", "]", ",", ":"}

\* str.strip() on a token sequence
RECURSIVE lstrip(_)
lstrip(t) == IF t # <<>> /\ Head(t) \in Whitespace THEN lstrip(Tail(t)) ELSE t

RECURSIVE rstrip(_)
rstrip(t) ==
    IF t # <<>> /\ t[Len(t)] \in Whitespace
    THEN rstrip(SubSeq(t, 1, Len(t) - 1))
    ELSE t

strip(t) == rstrip(lstrip(t))

\* The index of the first token of t at or after i that is in set S, or
\* Len(t) + 1 when there is none.
RECURSIVE IndexFrom(_, _, _)
IndexFrom(t, i, S) ==
    IF i > Len(t) THEN Len(t) + 1
    ELSE IF t[i] \in S THEN i
    ELSE IndexFrom(t, i + 1, S)

\* analysis_text.split(fence)[1].split(Fence)[0], analyzer.py:113-116: the text
\* between the first fence and the next one.
BetweenFences(t, fence) ==
    LET first == IndexFrom(t, 1, fence)
        close == IndexFrom(t, first + 1, {Fence, FenceJson})
    IN  SubSeq(t, first + 1, close - 1)

StripFences(t) ==
    IF \E i \in DOMAIN t : t[i] = FenceJson THEN BetweenFences(t, {FenceJson})
    ELSE IF \E i \in DOMAIN t : t[i] = Fence THEN BetweenFences(t, {Fence})
    ELSE t

\* re.sub(r',\s*' + closer, closer, text): a comma, any whitespace after it
\* and the closer become the closer.
RECURSIVE RemoveTrailingComma(_, _)
RemoveTrailingComma(t, closer) ==
    IF t = <<>> THEN <<>>
    ELSE IF Head(t) = "," /\ lstrip(Tail(t)) # <<>> /\ Head(lstrip(Tail(t))) = closer
    THEN RemoveTrailingComma(lstrip(Tail(t)), closer)
    ELSE <<Head(t)>> \o RemoveTrailingComma(Tail(t), closer)

NoParse == [ok |-> FALSE, type |-> "none", val |-> <<>>, next |-> 0]

\* A recursive-descent parser of the JSON grammar over tokens without
\* whitespace: objects, arrays and string atoms.
RECURSIVE ParseValue(_, _)
RECURSIVE ParseMembers(_, _, _)
RECURSIVE ParseElements(_, _, _)

ParseValue(t, i) ==
    IF i > Len(t) THEN NoParse
    ELSE IF t[i] = "{" THEN
        IF i + 1 <= Len(t) /\ t[i + 1] = "}"
        THEN [ok |-> TRUE, type |-> "object", val |-> <<>>, next |-> i + 2]
        ELSE ParseMembers(t, i + 1, <<>>)
    ELSE IF t[i] = "[" THEN
        IF i + 1 <= Len(t) /\ t[i + 1] = "]"
        THEN [ok |-> TRUE, type |-> "array", val |-> <<>>, next |-> i + 2]
        ELSE ParseElements(t, i + 1, <<>>)
    ELSE IF t[i] \in Structural \cup {Fence, FenceJson} THEN NoParse
    ELSE [ok |-> TRUE, type |-> "string", val |-> t[i], next |-> i + 1]

ParseMembers(t, i, acc) ==
    IF i + 2 > Len(t) \/ t[i] \in Structural \/ t[i + 1] # ":" THEN NoParse
    ELSE
      LET v == ParseValue(t, i + 2)
          obj == (t[i] :> v.val) @@ acc    \* a repeated key keeps the last value
      IN  IF ~v.ok \/ v.next > Len(t) THEN NoParse
          ELSE IF t[v.next] = "}"
          THEN [ok |-> TRUE, type |-> "object", val |-> obj, next |-> v.next + 1]
          ELSE IF t[v.next] = "," THEN ParseMembers(t, v.next + 1, obj)
          ELSE NoParse

ParseElements(t, i, acc) ==
    LET v == ParseValue(t, i)
    IN  IF ~v.ok \/ v.next > Len(t) THEN NoParse
        ELSE IF t[v.next] = "]"
        THEN [ok |-> TRUE, type |-> "array", val |-> Append(acc, v.val),
              next |-> v.next + 1]
        ELSE IF t[v.next] = "," THEN ParseElements(t, v.next + 1, Append(acc, v.val))
        ELSE NoParse

\* json.loads: whitespace between tokens is ignored and the whole text must
\* be one value.
json_loads(t) ==
    LET IsToken(x) == x \notin Whitespace
        toks == SelectSeq(t, IsToken)
        v == ParseValue(toks, 1)
    IN  IF v.ok /\ v.next = Len(toks) + 1
        THEN Return([type |-> v.type, val |-> v.val])
        ELSE Raise(OtherError("JSONDecodeError", <<"Expecting value">>))

\* A variant of ParseWithRepair without the second attempt.
ParseOnce(t) == json_loads(strip(t))

\* analyzer.py:119-128: parse, and on a decode error remove trailing commas and
\* parse again.
ParseWithRepair(t) ==
    LET first == json_loads(strip(t))
        fixed_text == RemoveTrailingComma(RemoveTrailingComma(strip(t), "}"), "]")
    IN  IF first.kind = "return" THEN first ELSE json_loads(fixed_text)

-----------------------------------------------------------------------------
(* Response text.  A response is a sequence of sentences; what each regular   *)
(* expression of analyzer.py finds in a sentence is tabulated from the        *)
(* expression, and a text yields the matches of its sentences in order.       *)

SentenceAcme == "Acme is a leading vendor. "
SentenceReuters == "According to reuters, prices rose. "
SentenceAladdin == "BlackRock is known for its Aladdin platform. "
SentenceUrl == "See https://etf.com for more. "
SentenceFiller == "xxx ... xxx. "          \* 1000 characters, nothing to find
CutSentence == "<part of a sentence>"      \* what a slice leaves of a sentence
TruncationMarker == "... [truncated for analysis]"

\* len() of one sentence
SentenceLen(x) ==
    CASE x = SentenceAcme -> 26
      [] x = SentenceReuters -> 35
      [] x = SentenceAladdin -> 45
      [] x = SentenceUrl -> 30
      [] x = SentenceFiller -> 1000
      [] x = TruncationMarker -> 28
      [] OTHER -> 1

RECURSIVE TextLen(_)
TextLen(text) == IF text = <<>> THEN 0 ELSE SentenceLen(Head(text)) + TextLen(Tail(text))

\* text[:n]
RECURSIVE Slice(_, _)
Slice(text, n) ==
    IF text = <<>> \/ n <= 0 THEN <<>>
    ELSE IF SentenceLen(Head(text)) <= n
    THEN <<Head(text)>> \o Slice(Tail(text), n - SentenceLen(Head(text)))
    ELSE <<CutSentence>>

\* len() and lower() of the short strings that name a source or a company
StrLen(x) ==
    CASE x = "ab" -> 2
      [] x \in {"Acme", "acme"} -> 4
      [] x \in {"Reuters", "reuters", "REUTERS", "Aladdin", "ETF.com"} -> 7
      [] x = "Aladdin platform" -> 16
      [] x = "https://etf.com" -> 15
      [] OTHER -> 9

lowerStr(x) ==
    CASE x = "Acme" -> "acme"
      [] x \in {"Reuters", "REUTERS"} -> "reuters"
      [] x = "Aladdin" -> "aladdin"
      [] x = "Aladdin platform" -> "aladdin platform"
      [] x = "ETF.com" -> "etf.com"
      [] OTHER -> x

RECURSIVE Flatten(_)
Flatten(ss) == IF ss = <<>> THEN <<>> ELSE Head(ss) \o Flatten(Tail(ss))

\* re.findall(pattern, text) for a tabulated pattern
Findall(table(_), text) == Flatten([i \in DOMAIN text |-> table(text[i])])

\* analyzer.py:173-180, the five patterns of _extract_additional_sources
ModelPattern1(x) == IF x = SentenceAladdin THEN <<"Aladdin">> ELSE <<>>
ModelPattern3(x) == IF x = SentenceAladdin THEN <<"Aladdin platform">> ELSE <<>>

\* analyzer.py:206 and 255, the URL pattern
UrlPattern(x) == IF x = SentenceUrl THEN <<"https://etf.com">> ELSE <<>>

\* analyzer.py:261, 'according to X' with re.IGNORECASE
CitationPattern(x) == IF x = SentenceReuters THEN <<"reuters">> ELSE <<>>

\* analyzer.py:285, the platform pattern of the fallback
PlatformPattern(x) == IF x = SentenceAladdin THEN <<"Aladdin">> ELSE <<>>

\* analyzer.py:236, capitalised words
CompanyPattern(x) ==
    CASE x = SentenceAcme -> <<"Acme">>
      [] x = SentenceReuters -> <<"According">>
      [] x = SentenceAladdin -> <<"Aladdin">>
      [] x = SentenceUrl -> <<"See">>
      [] OTHER -> <<>>

\* item.lower() in text_lower, for the names of known_items (analyzer.py:192)
\* and known_sources (analyzer.py:273) that a sentence of the model contains.
Mentions(text, item) ==
    \E i \in DOMAIN text :
        \/ item = "Aladdin" /\ text[i] = SentenceAladdin
        \/ item = "Reuters" /\ text[i] = SentenceReuters
        \/ item = "ETF.com" /\ text[i] = SentenceUrl

\* The entries of each list that some sentence of the model can contain, in
\* the order of the list.
known_items == <<"Aladdin", "Reuters", "ETF.com">>
known_sources == <<"Reuters", "Aladdin">>

\* word in text_lower, analyzer.py:246-249
authority_words == <<"leading">>
HasWord(text, word) ==
    \E i \in DOMAIN text : word = "leading" /\ text[i] = SentenceAcme

-----------------------------------------------------------------------------
(* ResponseAnalyzer, analyzer.py *)

TruncateAt == 5000
MaxSources == 30
FallbackMaxSources == 20
FallbackMaxCompanies == 10
MatchesPerPattern == 5

Min(a, b) == IF a <= b THEN a ELSE b
Take(s, n) == SubSeq(s, 1, Min(n, Len(s)))

\* ResponseAnalyzer.__init__, analyzer.py:15-19
NewAnalyzer(env) ==
    [api_key |-> getenv(env, "OPENAI_API_KEY"),
     analyze_enabled |-> AnalyzeEnabled(env)]

\* analyzer.py:210-222: keep the sources of a sensible length, the first of
\* each that are equal when lowered.
RECURSIVE CleanSources(_, _, _)
CleanSources(sources, seen, cleaned) ==
    IF sources = <<>> THEN cleaned
    ELSE
      LET source == Head(sources)
          keep == /\ 2 < StrLen(source)
                  /\ StrLen(source) < 100
                  /\ lowerStr(source) \notin seen
      IN  CleanSources(Tail(sources),
                       IF keep THEN seen \cup {lowerStr(source)} ELSE seen,
                       IF keep THEN Append(cleaned, source) ELSE cleaned)

\* Order-preserving filter of the items not yet in a list.
RECURSIVE AppendNew(_, _)
AppendNew(all_sources, items) ==
    IF items = <<>> THEN all_sources
    ELSE AppendNew(IF InList(Head(items), all_sources)
                   THEN all_sources
                   ELSE Append(all_sources, Head(items)),
                   Tail(items))

\* _extract_additional_sources, analyzer.py:161-224
extract_additional_sources(response_str, existing_sources) ==
    LET from_patterns == existing_sources
                         \o Findall(ModelPattern1, response_str)
                         \o Findall(ModelPattern3, response_str)
        IsMentioned(item) == Mentions(response_str, item)
        with_known == AppendNew(from_patterns, SelectSeq(known_items, IsMentioned))
        urls == Findall(UrlPattern, response_str)
        IsNew(url) == ~InList(url, with_known)
        all_sources == with_known \o SelectSeq(urls, IsNew)
    IN  Take(CleanSources(all_sources, {}, <<>>), MaxSources)

\* list(set(xs)): the distinct elements, in first-seen order or in the reverse
\* of it (the iteration order of a set of strings is not fixed).
RECURSIVE Distinct(_, _)
Distinct(xs, acc) ==
    IF xs = <<>> THEN acc
    ELSE Distinct(Tail(xs), IF InList(Head(xs), acc) THEN acc ELSE Append(acc, Head(xs)))

Reverse(xs) == [i \in DOMAIN xs |-> xs[Len(xs) + 1 - i]]

ListOfSet(xs, reversed) ==
    IF reversed THEN Reverse(Distinct(xs, <<>>)) ELSE Distinct(xs, <<>>)

\* A variant of get_fallback_analysis that gives up: "return None".
NoFallback(response_str, query, provider, now, reversed) == None

\* _get_fallback_analysis, analyzer.py:226-304
get_fallback_analysis(response_str, query, provider, now, reversed) ==
    LET companies == Take(Findall(CompanyPattern, response_str), MatchesPerPattern)
        HasAuthority(word) == HasWord(response_str, word)
        LongEnough(m) == StrLen(m) > 3
        IsMentioned(source) == Mentions(response_str, source)
        Kept(m) == StrLen(m) > 2
        sources_cited ==
            Findall(UrlPattern, response_str)
            \o SelectSeq(Findall(CitationPattern, response_str), LongEnough)
            \o SelectSeq(known_sources, IsMentioned)
            \o SelectSeq(Findall(PlatformPattern, response_str), Kept)
    IN  [timestamp |-> now,
         query |-> query,
         provider |-> provider,
         companies_mentioned |->
             Take(ListOfSet(companies, reversed), FallbackMaxCompanies),
         mention_reasons |-> [extracted |-> "Fallback analysis - AI unavailable"],
         authority_signals |-> SelectSeq(authority_words, HasAuthority),
         key_features |-> <<>>,
         sources_cited |->
             Take(ListOfSet(SelectSeq(sources_cited, Kept), reversed),
                  FallbackMaxSources),
         ranking_factors |-> "Analysis unavailable",
         sentiment |-> "neutral",
         optimization_insights |->
             "AI analysis unavailable - manual review recommended"]

\* analyzer.py:131-140
RequiredFields ==
    {"companies_mentioned", "mention_reasons", "authority_signals",
     "key_features", "sources_cited", "ranking_factors", "sentiment",
     "optimization_insights"}

required_fields ==
    [companies_mentioned |-> <<>>,
     mention_reasons |-> <<>>,
     authority_signals |-> <<>>,
     key_features |-> <<>>,
     sources_cited |-> <<>>,
     ranking_factors |-> "",
     sentiment |-> "neutral",
     optimization_insights |-> ""]

\* A variant of MergeDefaults that keeps the parsed object as it is.
KeepParsed(analysis) == analysis

\* analyzer.py:143-145, the merge with the defaults
MergeDefaults(analysis) ==
    [field \in DOMAIN analysis \cup RequiredFields |->
        IF field \in DOMAIN analysis THEN analysis[field] ELSE required_fields[field]]

\* analyzer.py:95-96
Truncate(response_str) ==
    IF TextLen(response_str) > TruncateAt
    THEN Slice(response_str, TruncateAt) \o <<TruncationMarker>>
    ELSE response_str

\* The prompt of analyzer.py:57-84, built from the text before it is cut.
AnalysisPrompt(response_text, query, provider) ==
    [query |-> query, provider |-> provider, response |-> response_text]

\* analyzer.py:54-107: what create() is called with, or None when the call is
\* not reached.  The prompt is built at analyzer.py:57, before the text is cut
\* at analyzer.py:95-96, and the cut text is not put into it.
analysis_request(self, response_text, query, provider, a) ==
    IF ~self.analyze_enabled \/ ~a.import_ok \/ IsNone(self.api_key)
    THEN None
    ELSE LET response_str == response_text
             analysis_prompt == AnalysisPrompt(response_str, query, provider)
         IN  Some([max_tokens |-> 4000, content |-> analysis_prompt])

\* analyzer.py:130-155: what the try block does with the parsed output.
BuildAnalysis(parsed, response_str, query, provider, now) ==
    IF parsed.type # "object"
    THEN Raise(OtherError("TypeError", <<"object does not support item assignment">>))
    ELSE
      LET merged == MergeDefaults(parsed.val)
          sources == extract_additional_sources(response_str,
                                                Get(merged, "sources_cited", <<>>))
      IN  Return([field \in DOMAIN merged
                            \cup {"sources_cited", "timestamp", "query", "provider"} |->
                    CASE field = "sources_cited" -> sources
                      [] field = "timestamp" -> now
                      [] field = "query" -> query
                      [] field = "provider" -> provider
                      [] OTHER -> merged[field]])

\* analyze_with_ai, analyzer.py:48-159.  a describes the secondary model during
\* this call: whether the library imports, what create() returns or raises,
\* and the order in which a set of strings iterates.
analyze_with_ai(self, response_text, query, provider, a, now) ==
    IF ~self.analyze_enabled THEN None
    ELSE
      LET response_str == response_text
          truncated == Truncate(response_str)
          text == IF a.create.kind = "raise" THEN a.create
                  ELSE Return(StripFences(a.create.value))
          parsed == IF text.kind = "raise" THEN text ELSE ParseWithRepair(text.value)
          built == IF parsed.kind = "raise" THEN parsed
                   ELSE BuildAnalysis(parsed.value, truncated, query, provider, now)
      IN  IF ~a.import_ok \/ IsNone(self.api_key)
          THEN get_fallback_analysis(response_str, query, provider, now, a.reversed)
          ELSE IF built.kind = "raise"
          THEN get_fallback_analysis(truncated, query, provider, now, a.reversed)
          ELSE built.value

-----------------------------------------------------------------------------
(* Inputs of the service model *)

\* Deployments: the .env file the process starts with and the libraries that
\* are installed.
EnvFile(openai, anthropic, perplexity, google, search, cx, analyze) ==
    [v \in EnvVars |->
        CASE v = "OPENAI_API_KEY" -> openai
          [] v = "ANTHROPIC_API_KEY" -> anthropic
          [] v = "PERPLEXITY_API_KEY" -> perplexity
          [] v = "GOOGLE_API_KEY" -> google
          [] v = "GOOGLE_SEARCH_API_KEY" -> search
          [] v = "GOOGLE_SEARCH_CX" -> cx
          [] OTHER -> analyze]

EnvOpenAIOnly ==
    EnvFile(Some(RealKey), None, None, None, None, None, None)
EnvPartlyTemplate ==
    EnvFile(Some(RealKey), Some(TemplateAnthropic), Some(TemplatePerplexity),
            Some(TemplateGoogle), Some(RealKey), None, Some(<<"TRUE">>))
EnvGoogle ==
    EnvFile(None, None, None, Some(RealKey), Some(RealKey), Some(RealKey),
            Some(<<"true">>))

AllInstalled == [openai |-> TRUE, anthropic |-> TRUE, google |-> TRUE]
NoAnthropic == [openai |-> TRUE, anthropic |-> FALSE, google |-> TRUE]

Deployments ==
    {<<EnvOpenAIOnly, AllInstalled>>, <<EnvPartlyTemplate, NoAnthropic>>,
     <<EnvGoogle, AllInstalled>>}

EmptyEnv == [v \in EnvVars |-> None]

\* Request bodies of POST /api/query.
Prompt == <<"ping">>
Queries == {None, Some(<<>>), Some(Prompt)}

ProviderLists ==
    {None, Some(<<>>), Some(<<"openai">>), Some(<<"anthropic">>),
     Some(<<"google_search">>), Some(<<"bogus">>),
     Some(<<"perplexity", "google">>), Some(<<"openai", "anthropic">>),
     Some(<<"google", "google_search">>),
     Some(<<"bogus", "openai">>), Some(<<"openai", "openai">>)}

\* The lists of the submissions that the lookups are interleaved with.
ApiLists ==
    {None, Some(<<"bogus", "openai">>), Some(<<"google", "google_search">>)}

\* The lists a job is submitted with while the store already holds a job.
ConcurrentLists == {Some(<<"openai">>)}

\* What a vendor does during one adapter call.
ChatReply == Return([content |-> <<SentenceAcme>>, model |-> "vendor-model"])
ApiFailure == Raise(OtherError("APIError", <<"invalid api key">>))

\* What the search API does: two hits, the second with a link only.
SearchReply ==
    Return([status_code |-> 200, text |-> <<"{...}">>,
            json |-> Return(
              [items |->
                  <<[title |-> <<"First">>, link |-> <<"https://a.example">>,
                     snippet |-> <<"one">>],
                    [link |-> <<"https://b.example">>]>>,
               searchInformation |-> [totalResults |-> <<"2">>]])])
ConnectionRefused == Raise(OtherError("ConnectionError", <<"connection refused">>))
QuotaExceeded ==
    Return([status_code |-> 403, text |-> <<"quota exceeded">>, json |-> Return(<<>>)])

\* During the calls of one job every vendor answers, or every vendor fails, or
\* the search API refuses the request.
Worlds ==
    {[import_ok |-> TRUE, version |-> <<"1", "40", "0">>, client_import_ok |-> TRUE,
      legacy_import_ok |-> TRUE, call |-> ChatReply, legacy_call |-> ChatReply,
      http |-> SearchReply],
     [import_ok |-> TRUE, version |-> <<"1", "40", "0">>, client_import_ok |-> TRUE,
      legacy_import_ok |-> TRUE, call |-> ApiFailure, legacy_call |-> ApiFailure,
      http |-> ConnectionRefused],
     [import_ok |-> TRUE, version |-> <<"1", "40", "0">>, client_import_ok |-> TRUE,
      legacy_import_ok |-> TRUE, call |-> ChatReply, legacy_call |-> ChatReply,
      http |-> QuotaExceeded]}

\* What the secondary model does during one analysis call: it answers with an
\* object that has three of the fields, or the call fails: create() raises,
\* the library does not import, the answer is not an object, or it is not
\* JSON even after the repair.
AnalysisWorlds ==
    {[import_ok |-> TRUE, reversed |-> FALSE,
      create |-> Return(<<"{", "companies_mentioned", ":", "[", "Acme", "]", ",",
                               "sentiment", ":", "positive", ",",
                               "sources_cited", ":", "[", "Reuters", "]", "}">>)],
     [import_ok |-> TRUE, reversed |-> FALSE,
      create |-> Raise(OtherError("APIError", <<"quota exceeded">>))],
     [import_ok |-> FALSE, reversed |-> FALSE, create |-> Return(<<>>)],
     [import_ok |-> TRUE, reversed |-> FALSE, create |-> Return(<<"[", "Acme", "]">>)],
     [import_ok |-> TRUE, reversed |-> FALSE,
      create |-> Return(<<"{", "sentiment", ":">>)]}

-----------------------------------------------------------------------------
(* The service: app.py *)

JobIds == 1 .. (MaxJobs + 1)     \* uuid4 values; one is never handed out

EmitError == <<"emit failed">>
CsvError == <<"Permission denied: analysis_results.csv">>

\* The answer of an HTTP handler.
Answer(op, request, status, body) ==
    [op |-> op, request |-> request, status |-> status, body |-> body]
NoAnswer == None

\* The thread of app.py:124: the arguments it was created with and the locals
\* of process_query_async; reply is what requests.get did in the last call of
\* the search adapter that sent a request (run.py:374).
NewThread(query_text, selected_providers) ==
    [pc |-> "start",
     args |-> [query_text |-> query_text, selected_providers |-> selected_providers],
     query_text |-> query_text,
     selected_providers |-> selected_providers,
     i |-> 1,
     tester |-> None,
     analyzer |-> None,
     result |-> None,
     reply |-> None,
     analysis |-> None,
     e |-> None]

\* The job record of app.py:114-121.
NewJob(query_id, query_text, now) ==
    [id |-> query_id,
     query |-> query_text,
     timestamp |-> now,
     status |-> "processing",
     results |-> <<>>,
     analysis |-> None]

Init ==
    /\ \E d \in Deployments :
        /\ dotenv = d[1]
        /\ environ = load_dotenv(EmptyEnv, d[1])
        /\ installed = d[2]
    /\ api_keys = ReadApiKeys(environ)
    /\ configured_providers = ConfiguredProviders(api_keys)
    /\ configured_providers # <<>>          \* run.py:121-127 exits otherwise
    /\ query_results = <<>>
    /\ threads = <<>>
    /\ rooms = [id \in JobIds |-> <<>>]
    /\ clock = 0
    /\ response = NoAnswer
    /\ unit_in = None
    /\ unit_out = None

Globals == <<dotenv, api_keys, configured_providers, installed, unit_in, unit_out>>

\* uuid.uuid4(): an identifier no job has.  Identifiers are only compared for
\* equality, so the model hands them out in order.
FreshId == CHOOSE id \in JobIds \ DOMAIN query_results :
              \A other \in JobIds \ DOMAIN query_results : id <= other

\* A variant of MissingQuery with the test "if query_text is None".
QueryIsNone(data) == IsNone(data.query)

\* The validation of app.py:107: the query is absent, null or empty.
MissingQuery(data) == ~truthy(data.query)

\* A variant of SubmitQuery that starts the thread and answers without the
\* record in the store.
SubmitQueryUnregistered(data) ==
    /\ response = NoAnswer
    /\ IF MissingQuery(data)
       THEN /\ response' = Answer("submit_query", data, 400,
                                  [error |-> <<"Query text is required">>])
            /\ UNCHANGED <<threads, clock>>
       ELSE LET query_id == FreshId
            IN
              /\ threads = <<>>
              /\ UNCHANGED clock
              /\ threads' =
                    (query_id :> NewThread(Val(data.query), data.providers)) @@ threads
              /\ response' = Answer("submit_query", data, 200,
                                    [query_id |-> query_id,
                                     message |-> <<"Query submitted successfully">>,
                                     websocket_room |-> query_id])
    /\ UNCHANGED <<environ, rooms, query_results>>
    /\ UNCHANGED Globals

\* submit_query, app.py:100-131
SubmitQuery(data) ==
    /\ response = NoAnswer
    /\ IF MissingQuery(data)
       THEN /\ response' = Answer("submit_query", data, 400,
                                  [error |-> <<"Query text is required">>])
            /\ UNCHANGED <<query_results, threads, clock>>
       ELSE \E now \in {clock, clock + 1} :
            LET query_id == FreshId
            IN
              /\ Cardinality(DOMAIN query_results) < MaxJobs
              /\ now <= MaxClock
              /\ query_results = <<>> => now = clock
              /\ clock' = now
              /\ query_results' =
                    (query_id :> NewJob(query_id, Val(data.query), now)) @@ query_results
              /\ threads' =
                    (query_id :> NewThread(Val(data.query), data.providers)) @@ threads
              /\ response' = Answer("submit_query", data, 200,
                                    [query_id |-> query_id,
                                     message |-> <<"Query submitted successfully">>,
                                     websocket_room |-> query_id])
    /\ UNCHANGED <<environ, rooms>>
    /\ UNCHANGED Globals

\* A variant of Emit that publishes every event in one room.
EmitInFirstRoom(query_id, event) ==
    rooms' = [rooms EXCEPT ![1] = Append(@, event)]

\* socketio.emit(event, payload, room=f"query_{query_id}")
Emit(query_id, event) ==
    rooms' = [rooms EXCEPT ![query_id] = Append(@, event)]

\* The exception leaves the try block: control goes to app.py:212.
Except(t, msg) == [t EXCEPT !.pc = "except", !.e = Some(msg)]

\* The end of one pass of the loop of app.py:153.
NextProvider(t) ==
    [t EXCEPT !.pc = "loop", !.i = @ + 1, !.result = None, !.analysis = None]

Provider(t) == Val(t.selected_providers)[t.i]

\* The test of app.py:185.
ShouldAnalyze(result, analyzer, provider) ==
    /\ Get(result, "success", FALSE)
    /\ analyzer.analyze_enabled
    /\ provider # "google_search"

\* app.py:135-150: reload the environment, build the tester and the analyzer,
\* and take the configured providers when the caller named none.  Creating the
\* analysis CSV can fail when analysis is enabled.
Start(id) ==
    /\ threads[id].pc = "start"
    /\ response = NoAnswer
    /\ LET env == load_dotenv(environ, dotenv)
           t == threads[id]
       IN  /\ environ' = env
           /\ \E csv_ok \in BOOLEAN :
                IF AnalyzeEnabled(env) /\ ~csv_ok
                THEN threads' = [threads EXCEPT ![id] =
                        Except([t EXCEPT !.tester =
                                  NewTester(configured_providers, api_keys, installed)],
                               CsvError)]
                ELSE threads' = [threads EXCEPT ![id] =
                        [t EXCEPT !.pc = "loop",
                                  !.tester = NewTester(configured_providers, api_keys,
                                                       installed),
                                  !.analyzer = NewAnalyzer(env),
                                  !.selected_providers =
                                      IF IsNone(t.selected_providers)
                                      THEN Some(init_services(env))
                                      ELSE t.selected_providers]]
    /\ UNCHANGED response
    /\ UNCHANGED <<query_results, rooms, clock>>
    /\ UNCHANGED Globals

\* app.py:153-158: the next provider of the list, and its provider_start.
StartProvider(id) ==
    /\ threads[id].pc = "loop"
    /\ response = NoAnswer
    /\ threads[id].i <= Len(Val(threads[id].selected_providers))
    /\ \E emit_ok \in BOOLEAN :
        IF emit_ok
        THEN /\ Emit(id, [event |-> "provider_start", query_id |-> id,
                          provider |-> Provider(threads[id])])
             /\ threads' = [threads EXCEPT ![id].pc = "call"]
        ELSE /\ threads' = [threads EXCEPT ![id] = Except(@, EmitError)]
             /\ UNCHANGED rooms
    /\ UNCHANGED response
    /\ UNCHANGED <<environ, query_results, clock>>
    /\ UNCHANGED Globals

\* A variant of CallProvider that raises when the adapter reports a failure.
CallProviderRaising(id) ==
    /\ threads[id].pc = "call"
    /\ response = NoAnswer
    /\ \E w \in Worlds :
        LET t == threads[id]
            provider == Provider(t)
            out == CallAdapter(t.tester, provider, t.query_text, w)
        IN  IF out.kind = "raise"
            THEN /\ threads' = [threads EXCEPT ![id] = Except(t, out.exc.msg)]
                 /\ UNCHANGED query_results
            ELSE IF "error" \in DOMAIN out.value
            THEN /\ threads' = [threads EXCEPT ![id] = Except(t, out.value.error)]
                 /\ UNCHANGED query_results
            ELSE IF out.value # <<>>
            THEN /\ threads' = [threads EXCEPT ![id] =
                        [t EXCEPT !.pc = "provider_complete", !.result = out.value]]
                 /\ query_results' = [query_results EXCEPT ![id].results =
                        (provider :> out.value) @@ @]
            ELSE /\ threads' = [threads EXCEPT ![id] = NextProvider(t)]
                 /\ UNCHANGED query_results
    /\ UNCHANGED response
    /\ UNCHANGED <<environ, rooms, clock>>
    /\ UNCHANGED Globals

\* app.py:161-175: the adapter call, and the result stored when there is one.
CallProvider(id) ==
    /\ threads[id].pc = "call"
    /\ response = NoAnswer
    /\ \E w \in Worlds :
        LET t == threads[id]
            provider == Provider(t)
            out == CallAdapter(t.tester, provider, t.query_text, w)
            reply == IF /\ provider = "google_search"
                        /\ InList(provider, t.tester.configured_providers)
                        /\ w.import_ok
                     THEN Some(w.http) ELSE t.reply
        IN  IF out.kind = "raise"
            THEN /\ threads' = [threads EXCEPT ![id] = Except(t, out.exc.msg)]
                 /\ UNCHANGED query_results
            ELSE IF out.value # <<>>
            THEN /\ threads' = [threads EXCEPT ![id] =
                        [t EXCEPT !.pc = "provider_complete", !.result = out.value,
                                  !.reply = reply]]
                 /\ query_results' = [query_results EXCEPT ![id].results =
                        (provider :> out.value) @@ @]
            ELSE /\ threads' = [threads EXCEPT ![id] = NextProvider(t)]
                 /\ UNCHANGED query_results
    /\ UNCHANGED response
    /\ UNCHANGED <<environ, rooms, clock>>
    /\ UNCHANGED Globals

\* A variant of ProviderComplete that publishes nothing before the analysis.
ProviderCompleteSilent(id) ==
    /\ threads[id].pc = "provider_complete"
    /\ response = NoAnswer
    /\ LET t == threads[id]
       IN  threads' = [threads EXCEPT ![id] =
                IF ShouldAnalyze(t.result, t.analyzer, Provider(t))
                THEN [t EXCEPT !.pc = "analyze"]
                ELSE NextProvider(t)]
    /\ UNCHANGED response
    /\ UNCHANGED <<environ, query_results, rooms, clock>>
    /\ UNCHANGED Globals

\* app.py:178-185: provider_complete, then the decision to analyze.
ProviderComplete(id) ==
    /\ threads[id].pc = "provider_complete"
    /\ response = NoAnswer
    /\ LET t == threads[id]
       IN  \E emit_ok \in BOOLEAN :
            IF emit_ok
            THEN /\ Emit(id, [event |-> "provider_complete", query_id |-> id,
                              provider |-> Provider(t), result |-> t.result])
                 /\ threads' = [threads EXCEPT ![id] =
                        IF ShouldAnalyze(t.result, t.analyzer, Provider(t))
                        THEN [t EXCEPT !.pc = "analyze"]
                        ELSE NextProvider(t)]
            ELSE /\ threads' = [threads EXCEPT ![id] = Except(t, EmitError)]
                 /\ UNCHANGED rooms
    /\ UNCHANGED response
    /\ UNCHANGED <<environ, query_results, clock>>
    /\ UNCHANGED Globals

\* app.py:186-193: the analysis call; when it returns one, the job's analysis
\* map is created if it is still None.
Analyze(id) ==
    /\ threads[id].pc = "analyze"
    /\ response = NoAnswer
    /\ \E a \in AnalysisWorlds :
        LET t == threads[id]
            analysis == analyze_with_ai(t.analyzer, t.result.response, t.query_text,
                                        Provider(t), a, clock)
        IN  IF analysis # <<>>
            THEN /\ threads' = [threads EXCEPT ![id] =
                        [t EXCEPT !.pc = "store_analysis", !.analysis = analysis]]
                 /\ query_results' = [query_results EXCEPT ![id].analysis =
                        IF IsNone(@) THEN Some(<<>>) ELSE @]
            ELSE /\ threads' = [threads EXCEPT ![id] = NextProvider(t)]
                 /\ UNCHANGED query_results
    /\ UNCHANGED response
    /\ UNCHANGED <<environ, rooms, clock>>
    /\ UNCHANGED Globals

\* A variant of StoreAnalysis that goes on to the event without the store.
StoreAnalysisSkipped(id) ==
    /\ threads[id].pc = "store_analysis"
    /\ response = NoAnswer
    /\ threads' = [threads EXCEPT ![id].pc = "analysis_complete"]
    /\ UNCHANGED response
    /\ UNCHANGED <<environ, query_results, rooms, clock>>
    /\ UNCHANGED Globals

\* app.py:194
StoreAnalysis(id) ==
    /\ threads[id].pc = "store_analysis"
    /\ response = NoAnswer
    /\ LET t == threads[id]
       IN  query_results' = [query_results EXCEPT ![id].analysis =
                Some((Provider(t) :> t.analysis) @@ Val(@))]
    /\ threads' = [threads EXCEPT ![id].pc = "analysis_complete"]
    /\ UNCHANGED response
    /\ UNCHANGED <<environ, rooms, clock>>
    /\ UNCHANGED Globals

\* app.py:197-201
AnalysisComplete(id) ==
    /\ threads[id].pc = "analysis_complete"
    /\ response = NoAnswer
    /\ LET t == threads[id]
       IN  \E emit_ok \in BOOLEAN :
            IF emit_ok
            THEN /\ Emit(id, [event |-> "analysis_complete", query_id |-> id,
                              provider |-> Provider(t), analysis |-> t.analysis])
                 /\ threads' = [threads EXCEPT ![id] = NextProvider(t)]
            ELSE /\ threads' = [threads EXCEPT ![id] = Except(t, EmitError)]
                 /\ UNCHANGED rooms
    /\ UNCHANGED response
    /\ UNCHANGED <<environ, query_results, clock>>
    /\ UNCHANGED Globals

\* app.py:204, after the last provider
SetCompleted(id) ==
    /\ threads[id].pc = "loop"
    /\ response = NoAnswer
    /\ threads[id].i > Len(Val(threads[id].selected_providers))
    /\ query_results' = [query_results EXCEPT ![id].status = "completed"]
    /\ threads' = [threads EXCEPT ![id].pc = "query_complete"]
    /\ UNCHANGED response
    /\ UNCHANGED <<environ, rooms, clock>>
    /\ UNCHANGED Globals

\* A variant of QueryComplete whose emit can raise after it has published.
QueryCompleteThenRaise(id) ==
    /\ threads[id].pc = "query_complete"
    /\ response = NoAnswer
    /\ Emit(id, [event |-> "query_complete", query_id |-> id,
                 results |-> query_results[id]])
    /\ \E emit_ok \in BOOLEAN :
        IF emit_ok
        THEN threads' = [threads EXCEPT ![id].pc = "done"]
        ELSE threads' = [threads EXCEPT ![id] = Except(@, EmitError)]
    /\ UNCHANGED response
    /\ UNCHANGED <<environ, query_results, clock>>
    /\ UNCHANGED Globals

\* app.py:207-210
QueryComplete(id) ==
    /\ threads[id].pc = "query_complete"
    /\ response = NoAnswer
    /\ \E emit_ok \in BOOLEAN :
        IF emit_ok
        THEN /\ Emit(id, [event |-> "query_complete", query_id |-> id,
                          results |-> query_results[id]])
             /\ threads' = [threads EXCEPT ![id].pc = "done"]
        ELSE /\ threads' = [threads EXCEPT ![id] = Except(@, EmitError)]
             /\ UNCHANGED rooms
    /\ UNCHANGED response
    /\ UNCHANGED <<environ, query_results, clock>>
    /\ UNCHANGED Globals

\* A variant of ExceptStatus that leaves the status as it was.
ExceptStatusKept(id) ==
    /\ threads[id].pc = "except"
    /\ response = NoAnswer
    /\ threads' = [threads EXCEPT ![id].pc = "except_error"]
    /\ UNCHANGED response
    /\ UNCHANGED <<environ, query_results, rooms, clock>>
    /\ UNCHANGED Globals

\* app.py:214
ExceptStatus(id) ==
    /\ threads[id].pc = "except"
    /\ response = NoAnswer
    /\ query_results' = [query_results EXCEPT ![id].status = "error"]
    /\ threads' = [threads EXCEPT ![id].pc = "except_error"]
    /\ UNCHANGED response
    /\ UNCHANGED <<environ, rooms, clock>>
    /\ UNCHANGED Globals

\* A variant of ExceptError that leaves the record without the message.
ExceptErrorOmitted(id) ==
    /\ threads[id].pc = "except_error"
    /\ response = NoAnswer
    /\ threads' = [threads EXCEPT ![id].pc = "query_error"]
    /\ UNCHANGED response
    /\ UNCHANGED <<environ, query_results, rooms, clock>>
    /\ UNCHANGED Globals

\* app.py:215
ExceptError(id) ==
    /\ threads[id].pc = "except_error"
    /\ response = NoAnswer
    /\ query_results' = [query_results EXCEPT ![id] =
            ("error" :> Val(threads[id].e)) @@ @]
    /\ threads' = [threads EXCEPT ![id].pc = "query_error"]
    /\ UNCHANGED response
    /\ UNCHANGED <<environ, rooms, clock>>
    /\ UNCHANGED Globals

\* app.py:217-220; an exception here ends the thread.
QueryError(id) ==
    /\ threads[id].pc = "query_error"
    /\ response = NoAnswer
    /\ \E emit_ok \in BOOLEAN :
        IF emit_ok
        THEN Emit(id, [event |-> "query_error", query_id |-> id,
                       error |-> Val(threads[id].e)])
        ELSE UNCHANGED rooms
    /\ threads' = [threads EXCEPT ![id].pc = "done"]
    /\ UNCHANGED response
    /\ UNCHANGED <<environ, query_results, clock>>
    /\ UNCHANGED Globals

\* One step of the thread of job id.
ProcessQueryAsync(id) ==
    \/ Start(id)
    \/ StartProvider(id)
    \/ CallProvider(id)
    \/ ProviderComplete(id)
    \/ Analyze(id)
    \/ StoreAnalysis(id)
    \/ AnalysisComplete(id)
    \/ SetCompleted(id)
    \/ QueryComplete(id)
    \/ ExceptStatus(id)
    \/ ExceptError(id)
    \/ QueryError(id)

\* get_results, app.py:222-228
GetResults(query_id) ==
    /\ response = NoAnswer
    /\ response' = IF query_id \notin DOMAIN query_results
                   THEN Answer("get_results", [query_id |-> query_id], 404,
                               [error |-> <<"Query not found">>])
                   ELSE Answer("get_results", [query_id |-> query_id], 200,
                               query_results[query_id])
    /\ UNCHANGED <<environ, query_results, threads, rooms, clock>>
    /\ UNCHANGED Globals

\* get_analysis, app.py:230-244
GetAnalysis(query_id) ==
    /\ response = NoAnswer
    /\ response' =
        IF query_id \notin DOMAIN query_results
        THEN Answer("get_analysis", [query_id |-> query_id], 404,
                    [error |-> <<"Query not found">>])
        ELSE IF query_results[query_id].analysis \in {None, Some(<<>>)}
        THEN Answer("get_analysis", [query_id |-> query_id], 404,
                    [error |-> <<"No analysis available">>])
        ELSE Answer("get_analysis", [query_id |-> query_id], 200,
                    [query_id |-> query_id,
                     query |-> query_results[query_id].query,
                     analysis |-> Val(query_results[query_id].analysis)])
    /\ UNCHANGED <<environ, query_results, threads, rooms, clock>>
    /\ UNCHANGED Globals

\* One row of the CSV export, app.py:281-286
CsvRow(provider, result) ==
    [provider |-> provider,
     model |-> Get(result, "model", "N/A"),
     response |-> Get(result, "response", Get(result, "error", <<"N/A">>)),
     success |-> Get(result, "success", FALSE)]

\* A variant of ExportResults that looks at the format before the identifier.
ExportResultsFormatFirst(query_id, format_type) ==
    /\ response = NoAnswer
    /\ LET request == [query_id |-> query_id, format |-> format_type]
       IN  response' =
            IF format_type \notin {"json", "csv"}
            THEN Answer("export_results", request, 400, [error |-> <<"Invalid format">>])
            ELSE IF query_id \notin DOMAIN query_results
            THEN Answer("export_results", request, 404, [error |-> <<"Query not found">>])
            ELSE Answer("export_results", request, 200, query_results[query_id])
    /\ UNCHANGED <<environ, query_results, threads, rooms, clock>>
    /\ UNCHANGED Globals

\* export_results, app.py:258-295
ExportResults(query_id, format_type) ==
    /\ response = NoAnswer
    /\ LET request == [query_id |-> query_id, format |-> format_type]
       IN  response' =
            IF query_id \notin DOMAIN query_results
            THEN Answer("export_results", request, 404, [error |-> <<"Query not found">>])
            ELSE IF format_type = "json"
            THEN Answer("export_results", request, 200, query_results[query_id])
            ELSE IF format_type = "csv"
            THEN Answer("export_results", request, 200,
                        [provider \in DOMAIN query_results[query_id].results |->
                            CsvRow(provider, query_results[query_id].results[provider])])
            ELSE Answer("export_results", request, 400, [error |-> <<"Invalid format">>])
    /\ UNCHANGED <<environ, query_results, threads, rooms, clock>>
    /\ UNCHANGED Globals

\* The handler returns and Flask sends its answer.
Respond ==
    /\ response # NoAnswer
    /\ response' = NoAnswer
    /\ UNCHANGED <<environ, query_results, threads, rooms, clock>>
    /\ UNCHANGED Globals

\* The job flow: submissions, whose provider list comes from lists while the
\* store is empty, the background threads and the answers.
Flow(lists) ==
    \/ \E query \in Queries :
       \E providers \in IF query_results = <<>> THEN lists ELSE ConcurrentLists :
          SubmitQuery([query |-> query, providers |-> providers])
    \/ \E id \in DOMAIN threads : ProcessQueryAsync(id)
    \/ Respond

\* The handlers that read the store.
Lookup ==
    \/ \E id \in JobIds : GetResults(id)
    \/ \E id \in JobIds : GetAnalysis(id)
    \/ \E id \in JobIds, format_type \in {"json", "csv", "xml"} :
          ExportResults(id, format_type)

Next == Flow(ProviderLists)

ApiNext == Flow(ApiLists) \/ Lookup

\* The job flow on its own, and the whole service with fewer submissions.
Spec == Init /\ [][Next]_vars

ApiSpec == Init /\ [][ApiNext]_vars

\* Two jobs in the store, submitted one after the other, whose threads have
\* both been started and run side by side.
ConcurrentInit ==
    /\ \E d \in Deployments :
        /\ dotenv = d[1]
        /\ environ = load_dotenv(EmptyEnv, d[1])
        /\ installed = d[2]
    /\ api_keys = ReadApiKeys(environ)
    /\ configured_providers = ConfiguredProviders(api_keys)
    /\ configured_providers # <<>>
    /\ \E first \in {None, Some(<<"google_search">>)}, second \in ConcurrentLists :
        /\ query_results = (1 :> NewJob(1, Prompt, 0)) @@ (2 :> NewJob(2, Prompt, 0))
        /\ threads = (1 :> NewThread(Prompt, first)) @@ (2 :> NewThread(Prompt, second))
    /\ rooms = [id \in JobIds |-> <<>>]
    /\ clock = 0
    /\ response = NoAnswer
    /\ unit_in = None
    /\ unit_out = None

ConcurrentNext == \E id \in DOMAIN threads : ProcessQueryAsync(id)

ConcurrentSpec == ConcurrentInit /\ [][ConcurrentNext]_vars

\* The job flow with its scheduling, for submissions that are accepted: a
\* thread that can take a step takes one, and an answer that is ready is sent.
FairNext ==
    \/ SubmitQuery([query |-> Some(Prompt), providers |-> Some(<<"openai">>)])
    \/ \E id \in DOMAIN threads : ProcessQueryAsync(id)
    \/ Respond

FairSpec ==
    /\ Init /\ [][FairNext]_vars
    /\ \A id \in JobIds : WF_vars(id \in DOMAIN threads /\ ProcessQueryAsync(id))
    /\ WF_vars(Respond)

\* The operator edits the .env file while the service runs: once, before the
\* first submission.  Nothing reads the file until the next load_dotenv.
EditDotEnv(file) ==
    /\ response = NoAnswer
    /\ query_results = <<>>
    /\ environ = load_dotenv(EmptyEnv, dotenv)
    /\ file # dotenv
    /\ dotenv' = file
    /\ UNCHANGED <<environ, api_keys, configured_providers, installed, query_results,
                   threads, rooms, clock, response, unit_in, unit_out>>

\* get_providers, app.py:69-98: init_services reloads the file and the answer
\* lists the configured providers and the analysis flag.  No deployment sets
\* a *_MODEL variable, so each model is the default of lines 84-91.
GetProviders ==
    /\ response = NoAnswer
    /\ LET env == load_dotenv(environ, dotenv)
           providers == init_services(env)
           name(p) == CASE p = "openai" -> <<"Openai">>
                        [] p = "anthropic" -> <<"Anthropic">>
                        [] p = "perplexity" -> <<"Perplexity">>
                        [] p = "google" -> <<"Google">>
                        [] OTHER -> <<"Google", " ", "Search">>
           model(p) == CASE p = "openai" -> Some(<<"gpt-4.1">>)
                         [] p = "anthropic" -> Some(<<"claude-sonnet-4-20250514">>)
                         [] p = "perplexity" ->
                                Some(<<"llama-3.1-sonar-small-128k-online">>)
                         [] p = "google" -> Some(<<"gemini-2.5-flash">>)
                         [] OTHER -> None
           info(p) == [id |-> p, name |-> name(p), enabled |-> TRUE,
                       model |-> model(p)]
       IN  /\ environ' = env
           /\ response' = Answer("get_providers", <<>>, 200,
                [providers |-> [i \in DOMAIN providers |-> info(providers[i])],
                 analysis_enabled |->
                    lower(getenvDefault(env, "ANALYZE_RESPONSES", <<"true">>))
                        = <<"true">>])
    /\ UNCHANGED <<query_results, threads, rooms, clock>>
    /\ UNCHANGED Globals

\* Submissions without a list or with one provider, edits of the file and
\* requests for the provider list.
ReloadNext ==
    \/ Flow({None, Some(<<"openai">>)})
    \/ \E file \in {EnvOpenAIOnly, EnvGoogle} : EditDotEnv(file)
    \/ GetProviders

\* The job flow in a service whose .env file changes after start-up.
ReloadSpec == Init /\ [][ReloadNext]_vars

-----------------------------------------------------------------------------
(* The adapters and the analyzer on their own.  The service's variables stay  *)
(* as they are after start-up; a behaviour is one call, unit_in is the call   *)
(* and unit_out its outcome.                                                  *)

EnvAllKeys ==
    EnvFile(Some(RealKey), Some(RealKey), Some(RealKey), Some(RealKey), Some(RealKey),
            Some(RealKey), Some(<<"true">>))

UnitDeployments == Deployments \cup {<<EnvAllKeys, AllInstalled>>}

\* The tester of each deployment, run.py:91-141.
Testers ==
    {LET keys == ReadApiKeys(load_dotenv(EmptyEnv, d[1]))
     IN  NewTester(ConfiguredProviders(keys), keys, d[2]) : d \in UnitDeployments}

\* A response whose body is not JSON.
NotJson == Return([status_code |-> 200, text |-> <<"<html>">>,
                   json |-> Raise(OtherError("JSONDecodeError", <<"Expecting value">>))])

AdapterWorlds ==
    [import_ok : BOOLEAN,
     version : {<<"1", "40", "0">>, <<"0", "28", "1">>, <<"dev">>},
     client_import_ok : BOOLEAN,
     legacy_import_ok : BOOLEAN,
     call : {ChatReply, ApiFailure, Raise(ImportError(<<"No module named httpx">>))},
     legacy_call : {ChatReply, ApiFailure},
     http : {SearchReply, NotJson, ConnectionRefused,
             QuotaExceeded,
             Return([status_code |-> 200, text |-> <<"{}">>, json |-> Return(<<>>)])}]

UnitInit ==
    /\ dotenv = EnvAllKeys
    /\ environ = load_dotenv(EmptyEnv, EnvAllKeys)
    /\ installed = AllInstalled
    /\ api_keys = ReadApiKeys(environ)
    /\ configured_providers = ConfiguredProviders(api_keys)
    /\ query_results = <<>>
    /\ threads = <<>>
    /\ rooms = [id \in JobIds |-> <<>>]
    /\ clock = 0
    /\ response = NoAnswer
    /\ unit_in = None
    /\ unit_out = None

Service == <<dotenv, environ, api_keys, configured_providers, installed, query_results,
             threads, rooms, clock, response>>

\* One call of one adapter.
AdapterCall(tester, provider, w) ==
    /\ IsNone(unit_in)
    /\ unit_in' = Some([op |-> "adapter", provider |-> provider, tester |-> tester,
                        w |-> w])
    /\ unit_out' = Some(CallAdapter(tester, provider, Prompt, w))
    /\ UNCHANGED Service

AdapterNext ==
    \E tester \in Testers, provider \in KnownProviders, w \in AdapterWorlds :
        AdapterCall(tester, provider, w)

AdapterSpec == UnitInit /\ [][AdapterNext]_vars

\* The text of a JSON object that has the fields of S, in a fixed order.
FieldOrder ==
    <<"companies_mentioned", "mention_reasons", "authority_signals", "key_features",
      "sources_cited", "ranking_factors", "sentiment", "optimization_insights">>

FieldText(field) ==
    CASE field = "companies_mentioned" -> <<"[", "Acme", "]">>
      [] field = "mention_reasons" -> <<"{", "Acme", ":", "popular", "}">>
      [] field = "authority_signals" -> <<"[", "leading", "]">>
      [] field = "key_features" -> <<"[", "]">>
      [] field = "sources_cited" -> <<"[", "Reuters", ",", "REUTERS", "]">>
      [] field = "ranking_factors" -> <<"brand">>
      [] field = "sentiment" -> <<"positive">>
      [] OTHER -> <<"publish more">>

RECURSIVE MembersText(_, _)
MembersText(fields, S) ==
    IF fields = <<>> THEN <<>>
    ELSE IF Head(fields) \notin S THEN MembersText(Tail(fields), S)
    ELSE LET rest == MembersText(Tail(fields), S)
         IN  <<Head(fields), ":">> \o FieldText(Head(fields))
             \o (IF rest = <<>> THEN <<>> ELSE <<",">> \o rest)

ObjectText(S) == <<"{">> \o MembersText(FieldOrder, S) \o <<"}">>

\* Objects that are valid JSON but for trailing commas, before a brace, before
\* a bracket, with whitespace in between, nested and inside a code fence, each
\* with the object it stands for.
TrailingCommaCases ==
    {[text |-> <<"{", "sentiment", ":", "positive", ",", " ", "}">>,
      object |-> [sentiment |-> "positive"]],
     [text |-> <<"{", "companies_mentioned", ":", "[", "Acme", ",", "]", "}">>,
      object |-> [companies_mentioned |-> <<"Acme">>]],
     [text |-> <<"{", "companies_mentioned", ":", "[", "Acme", ",", "\n", "]", ",",
                 "\n", "}">>,
      object |-> [companies_mentioned |-> <<"Acme">>]],
     [text |-> <<"Here", FenceJson, "\n", "{", "sentiment", ":", "positive", ",",
                 "}", "\n", Fence>>,
      object |-> [sentiment |-> "positive"]],
     [text |-> <<Fence, "{", "mention_reasons", ":", "{", "Acme", ":", "popular",
                 ",", "}", ",", "ranking_factors", ":", "brand", "}", Fence>>,
      object |-> [mention_reasons |-> [Acme |-> "popular"],
                  ranking_factors |-> "brand"]]}

\* What the secondary model can answer: an object with any of the fields, the
\* same inside a code fence or with a trailing comma, a value that is not an
\* object, text that is not JSON, or an error.
ModelOutputs ==
    {Return(ObjectText(S)) : S \in SUBSET RequiredFields}
    \cup {Return(c.text) : c \in TrailingCommaCases}
    \cup {Return(<<"Here", FenceJson, "\n">> \o ObjectText({"sentiment"})
                 \o <<"\n", Fence>>),
          Return(<<Fence>> \o ObjectText({"key_features"}) \o <<Fence, "bye">>),
          Return(<<"{", "sentiment", ":", "positive", ",", " ", "}">>),
          Return(<<"[", "Acme", "]">>),
          Return(<<"positive">>),
          Return(<<"{", "sentiment", ":">>),
          Return(<<>>),
          Raise(OtherError("APIError", <<"quota exceeded">>))}

AnalysisUnitWorlds ==
    [import_ok : BOOLEAN, create : ModelOutputs, reversed : BOOLEAN]

Analyzers == {NewAnalyzer(load_dotenv(EmptyEnv, d[1])) : d \in UnitDeployments}

ResponseTexts ==
    {<<SentenceAcme>>, <<SentenceReuters, SentenceAladdin, SentenceUrl>>,
     <<SentenceFiller, SentenceFiller, SentenceFiller, SentenceFiller, SentenceFiller,
       SentenceAcme>>}

\* One call of analyze_with_ai.
AnalyzeCall(self, response_text, a) ==
    /\ IsNone(unit_in)
    /\ unit_in' = Some([op |-> "analyze", self |-> self,
                        response_text |-> response_text, a |-> a])
    /\ unit_out' = Some(analyze_with_ai(self, response_text, Prompt, "openai", a, 1))
    /\ UNCHANGED Service

\* One call of analyze_with_ai, looked at from the secondary model's side.
RequestCall(self, response_text, a) ==
    /\ IsNone(unit_in)
    /\ unit_in' = Some([op |-> "request", self |-> self,
                        response_text |-> response_text, a |-> a])
    /\ unit_out' = Some(analysis_request(self, response_text, Prompt, "openai", a))
    /\ UNCHANGED Service

AnalyzerNext ==
    \/ \E self \in Analyzers, response_text \in ResponseTexts,
          a \in AnalysisUnitWorlds :
            AnalyzeCall(self, response_text, a)
    \/ \E self \in Analyzers, response_text \in ResponseTexts, a \in AnalysisWorlds :
            RequestCall(self, response_text, a)

AnalyzerSpec == UnitInit /\ [][AnalyzerNext]_vars

-----------------------------------------------------------------------------
(* The history lookup on its own, over stores of up to MaxHistoryJobs jobs.   *)
(* A timestamp is the value of the clock; isoformat() strings of one length   *)
(* compare as the instants do.                                                *)

HistoryLimit == 20
MaxHistoryJobs == 22

\* query_results.values(): the records in the order they were inserted, which
\* is the order of the identifiers FreshId hands out.
values(d) == [i \in 1 .. Cardinality(DOMAIN d) |-> d[i]]

\* A variant of InsertByTimestamp for a sort without reverse=True.
InsertOldestFirst(sorted, job) ==
    LET k == Cardinality({i \in DOMAIN sorted : sorted[i].timestamp <= job.timestamp})
    IN  SubSeq(sorted, 1, k) \o <<job>> \o SubSeq(sorted, k + 1, Len(sorted))

\* sorted(..., key=lambda x: x['timestamp'], reverse=True) is stable: a record
\* goes after the records with a later or equal timestamp that precede it.
InsertByTimestamp(sorted, job) ==
    LET k == Cardinality({i \in DOMAIN sorted : sorted[i].timestamp >= job.timestamp})
    IN  SubSeq(sorted, 1, k) \o <<job>> \o SubSeq(sorted, k + 1, Len(sorted))

RECURSIVE SortedByTimestamp(_)
SortedByTimestamp(jobs) ==
    IF jobs = <<>> THEN <<>>
    ELSE InsertByTimestamp(SortedByTimestamp(SubSeq(jobs, 1, Len(jobs) - 1)),
                           jobs[Len(jobs)])

\* get_history, app.py:246-256
GetHistory ==
    /\ response = NoAnswer
    /\ response' = Answer("get_history", <<>>, 200,
                          [queries |-> Take(SortedByTimestamp(values(query_results)),
                                            HistoryLimit)])
    /\ UNCHANGED <<environ, query_results, threads, rooms, clock>>
    /\ UNCHANGED Globals

\* The stores the lookup is applied to: n jobs whose timestamps rise, fall,
\* repeat or alternate in the order of insertion.
Stores ==
    {[i \in 1 .. n |-> NewJob(i, Prompt, stamp[1 + (i % 3)] + stamp[4] * (i \div 8))] :
        n \in 0 .. MaxHistoryJobs,
        stamp \in {<<0, 0, 0, 1>>, <<0, 0, 0, 0>>, <<0, 1, 2, 0>>, <<2, 1, 0, 0>>,
                    <<3, 0, 1, 1>>}}

HistoryInit ==
    /\ UnitInit!1 /\ UnitInit!2 /\ UnitInit!3 /\ UnitInit!4 /\ UnitInit!5
    /\ query_results \in Stores
    /\ threads = <<>>
    /\ rooms = [id \in JobIds |-> <<>>]
    /\ clock = 3
    /\ response = NoAnswer
    /\ unit_in = None
    /\ unit_out = None

HistoryNext == GetHistory \/ Respond

HistorySpec == HistoryInit /\ [][HistoryNext]_vars

-----------------------------------------------------------------------------
(* Properties of the job flow *)

Terminal == {"completed", "error"}

\* The events of one kind published for a job, as positions in its room.
EventsOf(id, kind) == {k \in DOMAIN rooms[id] : rooms[id][k].event = kind}

\* The thread ended without an exception reaching the handler of app.py:212.
EndedNormally(id) == threads[id].pc = "done" /\ IsNone(threads[id].e)

\* C1: a job's status starts as "processing" and, once it is "completed" or
\* "error", no later step changes it, a failure to publish query_complete
\* included.
C1_StatusMonotonic ==
    [][/\ \A id \in DOMAIN query_results' \ DOMAIN query_results :
            query_results'[id].status = "processing"
       /\ \A id \in DOMAIN query_results :
            query_results[id].status \in Terminal
                => query_results'[id].status = query_results[id].status]_vars

\* A job that was "completed" and is "error": the loop is over and the
\* exception came from the publication of query_complete.
C1_CompletedThenError ==
    \E id \in DOMAIN threads :
        /\ query_results[id].status = "error"
        /\ threads[id].e = Some(EmitError)
        /\ ~IsNone(threads[id].selected_providers)
        /\ threads[id].i > Len(Val(threads[id].selected_providers))

\* C2: when the flow of a job has ended normally, the results map has an entry
\* for every provider of the list the flow went through, the identifiers that
\* are not one of the five known ones included.
C2_EverySelectedProviderHasResult ==
    \A id \in DOMAIN threads :
        EndedNormally(id) =>
            \A P \in Range(Val(threads[id].selected_providers)) :
                P \in DOMAIN query_results[id].results

\* A completed job whose list named an unknown provider that has no result.
C2_UnknownProviderWithoutResult ==
    \E id \in DOMAIN threads :
        /\ EndedNormally(id)
        /\ query_results[id].status = "completed"
        /\ \E P \in Range(Val(threads[id].selected_providers)) :
              P \notin KnownProviders /\ P \notin DOMAIN query_results[id].results

AfterCall == {"provider_complete", "analyze", "store_analysis", "analysis_complete"}

\* C3: a failing adapter never takes the job to "error": the only exceptions
\* that reach the handler are those of publishing and of the analysis file.
\* The value the adapter returned is the provider's entry, and a job whose
\* flow ended normally is "completed" with, for each known provider of its
\* list, a success or a failure that carries the error text, equal to what
\* the last provider_complete for it published.
C3_ProviderFailureIsolated ==
    \A id \in DOMAIN threads :
        LET t == threads[id]
            job == query_results[id]
        IN  /\ t.e \in {None, Some(EmitError), Some(CsvError)}
            /\ job.status = "error" => ~IsNone(t.e)
            /\ t.pc \in AfterCall => job.results[Provider(t)] = t.result
            /\ EndedNormally(id) =>
                /\ job.status = "completed"
                /\ \A P \in Range(Val(t.selected_providers)) \cap KnownProviders :
                    /\ P \in DOMAIN job.results
                    /\ \/ Get(job.results[P], "success", FALSE)
                       \/ /\ "error" \in DOMAIN job.results[P]
                          /\ job.results[P].error # <<>>
                    /\ \E k \in EventsOf(id, "provider_complete") :
                        /\ rooms[id][k].provider = P
                        /\ rooms[id][k].result = job.results[P]

\* A completed job with the failure of one provider and the success of
\* another.
C3_OneFailedOneSucceeded ==
    \E id \in DOMAIN threads :
        /\ EndedNormally(id)
        /\ query_results[id].status = "completed"
        /\ \E P, Q \in DOMAIN query_results[id].results :
            /\ Get(query_results[id].results[P], "error", <<>>) = <<"invalid api key">>
            /\ Get(query_results[id].results[Q], "success", FALSE)

-----------------------------------------------------------------------------
(* Properties of the adapters *)

AdapterCalled == ~IsNone(unit_in) /\ Val(unit_in).op = "adapter"

\* The call goes straight to the vendor: the provider is configured, the
\* libraries are installed and import, and the client is the current one.
DirectCall(in) ==
    /\ InList(in.provider, in.tester.configured_providers)
    /\ in.tester.has_openai /\ in.tester.has_anthropic /\ in.tester.has_google
    /\ in.w.import_ok /\ in.w.client_import_ok
    /\ in.w.version[1] = "1"

\* What the vendor or the transport does in this call.
VendorOutcome(in) ==
    IF in.provider = "google_search" THEN in.w.http ELSE in.w.call

VendorRaises(in) ==
    /\ DirectCall(in)
    /\ VendorOutcome(in).kind = "raise"
    /\ VendorOutcome(in).exc.type # "ImportError"

\* C4: every adapter returns a record, a success or a failure with an error
\* text, and lets no exception escape; what the vendor or the transport raises
\* becomes a failure that carries the text of the error.
C4_AdaptersNeverRaise ==
    AdapterCalled =>
        LET in == Val(unit_in)
            out == Val(unit_out)
        IN  /\ out.kind = "return"
            /\ "provider" \in DOMAIN out.value
            /\ \/ Get(out.value, "success", FALSE)
               \/ "error" \in DOMAIN out.value /\ out.value.error # <<>>
            /\ VendorRaises(in) =>
                /\ "success" \notin DOMAIN out.value
                /\ Get(out.value, "error", <<>>) = VendorOutcome(in).exc.msg
            /\ (in.provider = "google_search" /\ DirectCall(in) /\ in.w.http = NotJson)
                => Get(out.value, "error", <<>>) = <<"Expecting value">>

\* An adapter whose vendor raised has returned the failure.
C4_VendorErrorReturned ==
    /\ AdapterCalled
    /\ VendorRaises(Val(unit_in))
    /\ Val(unit_out).kind = "return"
    /\ Val(unit_out).value.error = <<"invalid api key">>

-----------------------------------------------------------------------------
(* Properties of the fan-out, the events and the handlers *)

\* The providers that are enabled: those app.py:35-62 finds configured.
EnabledProviders == Range(init_services(environ))

\* The caller's list cut down to the enabled providers, or all of them.
ExpectedFanOut(id) ==
    LET requested == threads[id].args.selected_providers
    IN  IF IsNone(requested) THEN EnabledProviders
        ELSE Range(Val(requested)) \cap EnabledProviders

StartedProviders(id) == {rooms[id][k].provider : k \in EventsOf(id, "provider_start")}

\* C5: the providers a job starts are those of the caller's list that are
\* enabled, or all the enabled ones when the caller gives no list; a provider
\* that is not enabled is never started.
C5_FanOutIsEnabledSubset ==
    \A id \in DOMAIN threads :
        /\ StartedProviders(id) \subseteq ExpectedFanOut(id)
        /\ EndedNormally(id) => StartedProviders(id) = ExpectedFanOut(id)

\* A provider that is not enabled has been started.
C5_DisabledProviderStarted ==
    \E id \in DOMAIN threads :
        \E P \in StartedProviders(id) : P \notin EnabledProviders

\* C6: in the events of a job, a provider_complete follows the provider_start
\* of its provider, an analysis_complete follows the provider_complete of its
\* provider, and nothing follows query_complete or query_error.
C6_EventOrder ==
    \A id \in JobIds :
        LET ev == rooms[id]
        IN  \A k \in DOMAIN ev :
              /\ ev[k].event = "provider_complete" =>
                    /\ k > 1
                    /\ ev[k - 1].event = "provider_start"
                    /\ ev[k - 1].provider = ev[k].provider
              /\ ev[k].event = "analysis_complete" =>
                    /\ k > 1
                    /\ ev[k - 1].event = "provider_complete"
                    /\ ev[k - 1].provider = ev[k].provider
              /\ ev[k].event \in {"query_complete", "query_error"} => k = Len(ev)

\* A job that published the three provider events and then query_complete.
C6_FullSequencePublished ==
    \E id \in JobIds :
        /\ EventsOf(id, "analysis_complete") # {}
        /\ EventsOf(id, "query_complete") = {Len(rooms[id])}

Answered(op) == response # NoAnswer /\ response.op = op

\* C7: a submission without a query, or with an empty one, is answered 400 and
\* leaves the job store, the threads and the events as they were.
C7_EmptyPromptRejected ==
    [][(/\ response' # NoAnswer
        /\ response'.op = "submit_query"
        /\ response'.request.query \in {None, Some(<<>>)})
          => /\ response'.status = 400
             /\ UNCHANGED <<query_results, threads, rooms>>]_vars

\* An empty query was answered 400.
C7_EmptyPromptAnswered ==
    /\ Answered("submit_query")
    /\ response.request.query = Some(<<>>)
    /\ response.status = 400

Lookups == {"get_results", "get_analysis", "export_results"}

\* C8: the three lookups answer 404 for an identifier no submission returned
\* and change nothing; the result lookup answers 200 for an identifier a
\* submission returned.
C8_UnknownIdNotFound ==
    [][(/\ response = NoAnswer
        /\ response' # NoAnswer
        /\ response'.op \in Lookups)
          => /\ UNCHANGED <<query_results, threads, rooms>>
             /\ response'.request.query_id \notin DOMAIN query_results
                    => response'.status = 404
             /\ (/\ response'.op = "get_results"
                 /\ response'.request.query_id \in DOMAIN query_results)
                    => response'.status = 200]_vars

\* The export of an unknown identifier was answered 404 while a job exists.
C8_UnknownExportAnswered ==
    /\ Answered("export_results")
    /\ query_results # <<>>
    /\ response.request.query_id \notin DOMAIN query_results
    /\ response.request.format = "xml"
    /\ response.status = 404

\* ANALYZE_RESPONSES is set to "true", in any case of the letters.
SwitchedOn ==
    /\ ~IsNone(environ["ANALYZE_RESPONSES"])
    /\ lower(Val(environ["ANALYZE_RESPONSES"])) = <<"true">>

\* C9: while analysis is switched off, the analysis map of a job has no key and
\* no analysis_complete is published for it.
C9_NoAnalysisWhenDisabled ==
    ~SwitchedOn =>
        \A id \in DOMAIN query_results :
            /\ \/ IsNone(query_results[id].analysis)
               \/ DOMAIN Val(query_results[id].analysis) = {}
            /\ EventsOf(id, "analysis_complete") = {}

\* Analysis is switched off and a job completed with a successful provider.
C9_DisabledJobSucceeded ==
    /\ ~SwitchedOn
    /\ \E id \in DOMAIN threads :
        /\ EndedNormally(id)
        /\ \E P \in DOMAIN query_results[id].results :
              Get(query_results[id].results[P], "success", FALSE)

-----------------------------------------------------------------------------
(* Properties of the analyzer *)

AnalyzeCalled == ~IsNone(unit_in) /\ Val(unit_in).op = "analyze"

Metadata == {"timestamp", "query", "provider"}

\* The call went to the secondary model and its answer parsed as an object.
BuiltFromModel(in) ==
    /\ in.a.import_ok
    /\ ~IsNone(in.self.api_key)
    /\ in.a.create.kind = "return"
    /\ ParseWithRepair(StripFences(in.a.create.value)).kind = "return"
    /\ ParseWithRepair(StripFences(in.a.create.value)).value.type = "object"

\* C10: an enabled analyzer returns a record with the eight required fields
\* and the metadata timestamp, query and provider, whether it comes from the
\* secondary model's output or from the fallback; the fields the model gave
\* are kept.
C10_AnalysisHasAllFields ==
    (AnalyzeCalled /\ Val(unit_in).self.analyze_enabled) =>
        LET in == Val(unit_in)
            out == Val(unit_out)
        IN  /\ RequiredFields \cup Metadata \subseteq DOMAIN out
            /\ out.query = Prompt /\ out.provider = "openai" /\ out.timestamp = 1
            /\ BuiltFromModel(in) =>
                \A field \in DOMAIN out \ (Metadata \cup {"sources_cited"}) :
                    out[field] =
                        LET parsed == ParseWithRepair(StripFences(in.a.create.value)).value.val
                        IN  IF field \in DOMAIN parsed THEN parsed[field]
                            ELSE required_fields[field]

\* The model's output had none of the fields and the record has them all.
C10_EmptyObjectCompleted ==
    /\ AnalyzeCalled
    /\ Val(unit_in).self.analyze_enabled
    /\ BuiltFromModel(Val(unit_in))
    /\ Val(unit_in).a.create = Return(<<"{", "}">>)
    /\ Val(unit_out).sentiment = "neutral"

-----------------------------------------------------------------------------
(* Properties of the sources, the fallback and the repair *)

AnalysisReturned == AnalyzeCalled /\ Val(unit_in).self.analyze_enabled

\* C11: the sources_cited of every analysis, built from the model's output or
\* by the fallback, has at most 30 elements and no two of them are equal when
\* lowered.
C11_SourcesCappedAndDistinct ==
    AnalysisReturned =>
        LET sources == Val(unit_out).sources_cited
        IN  /\ Len(sources) <= MaxSources
            /\ \A i, j \in DOMAIN sources :
                  lowerStr(sources[i]) = lowerStr(sources[j]) => i = j

\* The fallback returned a source in two spellings.
C11_FallbackKeepsBothSpellings ==
    /\ AnalysisReturned
    /\ ~BuiltFromModel(Val(unit_in))
    /\ InList("reuters", Val(unit_out).sources_cited)
    /\ InList("Reuters", Val(unit_out).sources_cited)

\* The record is the one the fallback builds.
IsFallback(analysis) ==
    Get(analysis, "mention_reasons", <<>>) =
        [extracted |-> "Fallback analysis - AI unavailable"]

\* The provider of a job answered and the flow analyzes its answer, app.py:185.
Analyzed(id, P) ==
    /\ P \in DOMAIN query_results[id].results
    /\ ShouldAnalyze(query_results[id].results[P], threads[id].analyzer, P)

RequestSent ==
    /\ ~IsNone(unit_in)
    /\ Val(unit_in).op = "request"
    /\ ~IsNone(Val(unit_out))

\* C13: for a response of more than 5000 characters, the request to the
\* secondary model holds the first 5000 characters and the truncation marker,
\* never the whole text.
C13_RequestHoldsTruncatedText ==
    (RequestSent /\ TextLen(Val(unit_in).response_text) > TruncateAt) =>
        LET sent == Val(Val(unit_out)).content.response
        IN  /\ sent = Slice(Val(unit_in).response_text, TruncateAt)
                      \o <<TruncationMarker>>
            /\ sent # Val(unit_in).response_text

\* A request for a response of more than 5000 characters holds all of it.
C13_WholeTextSent ==
    /\ RequestSent
    /\ TextLen(Val(unit_in).response_text) > TruncateAt
    /\ Val(Val(unit_out)).content.response = Val(unit_in).response_text

\* The secondary model was reached and answered with the text of case c.
AnsweredWith(c) ==
    /\ AnalysisReturned
    /\ Val(unit_in).a.import_ok
    /\ ~IsNone(Val(unit_in).self.api_key)
    /\ Val(unit_in).a.create = Return(c.text)

\* C14: output that is a JSON object but for trailing commas before a closing
\* brace or bracket, inside a code fence or not, is repaired and parsed: the
\* analysis has the values of the object and is not the fallback.
C14_TrailingCommaRepaired ==
    \A c \in TrailingCommaCases :
        AnsweredWith(c) =>
            /\ ~IsFallback(Val(unit_out))
            /\ \A field \in DOMAIN c.object : Val(unit_out)[field] = c.object[field]
            /\ \A field \in RequiredFields \ (DOMAIN c.object \cup {"sources_cited"}) :
                  Val(unit_out)[field] = required_fields[field]

\* A fenced object with a trailing comma in a nested object gave its values.
C14_NestedCommaRepaired ==
    /\ AnalysisReturned
    /\ Val(unit_in).a.import_ok
    /\ ~IsNone(Val(unit_in).self.api_key)
    /\ Val(unit_in).a.create.kind = "return"
    /\ Fence \in Range(Val(unit_in).a.create.value)
    /\ Val(unit_out).mention_reasons = [Acme |-> "popular"]
    /\ Val(unit_out).ranking_factors = "brand"

\* The search adapter of job id sent its request, and this is the answer.
SearchReplied(id) == ~IsNone(threads[id].reply)
SearchAnswer(id) == Val(threads[id].reply)

\* The fields of a search hit with the values used when the API leaves one out.
HitDefaults ==
    [title |-> <<"No title">>, link |-> <<>>, snippet |-> <<"No description available">>]

\* C15: when the search API answers 200 with two items, the job's entry for
\* the search provider has success = true, a response of exactly two hits with
\* exactly title, link and snippet, a field the API left out holding its
\* default, and the total the API reported; when the API answers another
\* status the entry is a failure, with an error and without a response.
C15_SearchRoundTrip ==
    \A id \in DOMAIN threads :
        SearchReplied(id) =>
            /\ "google_search" \in DOMAIN query_results[id].results
            /\ LET r == query_results[id].results["google_search"]
                   answer == SearchAnswer(id)
               IN  /\ ( /\ answer.kind = "return"
                        /\ answer.value.status_code = 200
                        /\ answer.value.json.kind = "return"
                        /\ "items" \in DOMAIN answer.value.json.value
                        /\ Len(answer.value.json.value.items) = 2 ) =>
                          LET data == answer.value.json.value
                          IN  /\ "error" \notin DOMAIN r
                              /\ r.success = TRUE
                              /\ Len(r.response) = 2
                              /\ \A k \in 1 .. 2 :
                                    /\ DOMAIN r.response[k] = DOMAIN HitDefaults
                                    /\ \A f \in DOMAIN HitDefaults :
                                          r.response[k][f] =
                                              IF f \in DOMAIN data.items[k]
                                              THEN data.items[k][f] ELSE HitDefaults[f]
                              /\ r.total_results = data.searchInformation.totalResults
                   /\ (answer.kind = "return" /\ answer.value.status_code # 200) =>
                          /\ "error" \in DOMAIN r
                          /\ "response" \notin DOMAIN r
                          /\ ~("success" \in DOMAIN r /\ r.success = TRUE)

\* A job with only the search provider completed with two hits stored.
C15_TwoHitsStored ==
    \E id \in DOMAIN threads :
        /\ threads[id].args.selected_providers = Some(<<"google_search">>)
        /\ SearchReplied(id)
        /\ SearchAnswer(id) = SearchReply
        /\ query_results[id].status = "completed"
        /\ Len(query_results[id].results["google_search"].response) = 2


-----------------------------------------------------------------------------
(* Properties of the credentials and of the stored records *)

\* The values the .env template gives the keys (run.py:67-78).
Placeholders == {TemplateOpenAI, TemplateAnthropic, TemplatePerplexity, TemplateGoogle}

\* A credential that is present, not empty and not a placeholder.
WellFormed(key) == ~IsNone(key) /\ Val(key) # <<>> /\ Val(key) \notin Placeholders

\* The credentials a provider needs, as keys of api_keys.
Credentials(p) == IF p = "google_search" THEN {"google_search", "google_cx"} ELSE {p}

\* C16: a provider is enabled, at start-up and by init_services, exactly when
\* each credential it needs is present, not empty and not a placeholder of the
\* template; the search provider needs both its key and its CX id.
C16_EnabledIffWellFormed ==
    \A p \in KnownProviders :
        /\ InList(p, configured_providers) <=>
              \A c \in Credentials(p) : WellFormed(api_keys[c])
        /\ InList(p, init_services(environ)) <=>
              \A c \in Credentials(p) : WellFormed(ReadApiKeys(environ)[c])

\* The placeholder the template writes for ANTHROPIC_API_KEY enables anthropic.
C16_TemplateEnablesAnthropic ==
    /\ getenv(environ, "ANTHROPIC_API_KEY") = Some(TemplateAnthropic)
    /\ InList("anthropic", configured_providers)
    /\ InList("anthropic", init_services(environ))
    /\ ~InList("perplexity", init_services(environ))


\* The providers whose credentials are well-formed in the .env file as it is.
EnabledByFile == Range(ConfiguredProviders(ReadApiKeys(load_dotenv(EmptyEnv, dotenv))))

\* The job was submitted without a provider list and its thread has started.
FannedOut(id) ==
    /\ IsNone(threads[id].args.selected_providers)
    /\ ~IsNone(threads[id].selected_providers)

NotConfigured(r) == "error" \in DOMAIN r /\ r.error = <<"Not configured">>

\* C17: a job submitted without a provider list after the .env file changed
\* fans out to exactly the providers whose credentials the file now gives,
\* a provider whose credential was removed not among them, and no adapter of
\* the fan-out answers 'Not configured'.
C17_CredentialChangesTakeEffect ==
    \A id \in DOMAIN threads :
        FannedOut(id) =>
            /\ Range(Val(threads[id].selected_providers)) = EnabledByFile
            /\ \A P \in DOMAIN query_results[id].results :
                  ~NotConfigured(query_results[id].results[P])

\* After GOOGLE_API_KEY was added to the file, a job fanned out to google and
\* its adapter answered 'Not configured'.
C17_AddedProviderNotConfigured ==
    \E id \in DOMAIN threads :
        /\ FannedOut(id)
        /\ ~InList("google", configured_providers)
        /\ "google" \in EnabledByFile
        /\ "google" \in DOMAIN query_results[id].results
        /\ NotConfigured(query_results[id].results["google"])


\* The two shapes of a provider result.
IsSuccess(r) ==
    /\ {"response", "model", "success"} \subseteq DOMAIN r
    /\ r.success = TRUE
    /\ "error" \notin DOMAIN r
IsFailure(r) ==
    /\ {"error", "success"} \subseteq DOMAIN r
    /\ r.success = FALSE
    /\ "response" \notin DOMAIN r

\* C18: every provider result stored in a job is a success, with a response,
\* a model and success = true and without an error, or a failure, with an
\* error and success = false and without a response.
C18_ResultShapes ==
    \A id \in DOMAIN query_results :
        \A P \in DOMAIN query_results[id].results :
            LET r == query_results[id].results[P]
            IN  IsSuccess(r) \/ IsFailure(r)

\* A completed job holds a failure that has no success field.
C18_FailureWithoutSuccessField ==
    \E id \in DOMAIN query_results :
        /\ query_results[id].status = "completed"
        /\ \E P \in DOMAIN query_results[id].results :
              LET r == query_results[id].results[P]
              IN  /\ "error" \in DOMAIN r
                  /\ r.error = ApiFailure.exc.msg
                  /\ "success" \notin DOMAIN r


\* A map that is present and has no keys.
EmptyMap == Some(<<>>)

\* C19: the record a submission creates has status "processing", a results
\* map without keys and an analysis map that is present and without keys.
C19_NewJobHasEmptyMaps ==
    [][\A id \in DOMAIN query_results' \ DOMAIN query_results :
          /\ query_results'[id].status = "processing"
          /\ Some(query_results'[id].results) = EmptyMap
          /\ query_results'[id].analysis = EmptyMap]_vars

\* A job was just created: its analysis is None, not a map.
C19_NewJobWithoutAnalysisMap ==
    \E id \in DOMAIN query_results :
        /\ threads[id].pc = "start"
        /\ query_results[id].status = "processing"
        /\ query_results[id].results = <<>>
        /\ IsNone(query_results[id].analysis)
        /\ query_results[id].analysis # EmptyMap


\* The positions of the handler of app.py:212-220.
Handler == {"except", "except_error", "query_error"}

\* The handler of job id ends in this step.
HandlerEnds(id) == threads[id].pc = "query_error" /\ threads'[id].pc = "done"

\* The record of job id has status "error" and the message of the exception.
ErrorRecorded(job, msg) ==
    /\ job.status = "error"
    /\ "error" \in DOMAIN job
    /\ job.error = msg

\* The query_error event of job id for the exception the thread caught.
ErrorEvent(id) ==
    [event |-> "query_error", query_id |-> id, error |-> Val(threads[id].e)]

\* C20, as the specification states it: when an exception reaches the handler
\* the job ends with status "error" and the message in its error field, a
\* query_error event with that message is published in the job's room, and the
\* handler leaves the stored provider results as they are.
C20_FaultRecordedAndPublished ==
    [][\A id \in DOMAIN threads :
          /\ threads[id].pc \in Handler =>
                query_results'[id].results = query_results[id].results
          /\ HandlerEnds(id) =>
                /\ ErrorRecorded(query_results'[id], Val(threads[id].e))
                /\ \E k \in DOMAIN rooms'[id] : rooms'[id][k] = ErrorEvent(id)]_vars

\* C20, amended: the job ends with status "error" and the message in its error
\* field and the stored provider results stay; the handler publishes nothing
\* but query_error with that message, as its last step, and when that
\* publication raises the room stays as it was.
C20_FaultRecorded ==
    [][\A id \in DOMAIN threads :
          /\ threads[id].pc \in Handler =>
                query_results'[id].results = query_results[id].results
          /\ threads[id].pc \in Handler \ {"query_error"} => rooms'[id] = rooms[id]
          /\ HandlerEnds(id) =>
                /\ ErrorRecorded(query_results'[id], Val(threads[id].e))
                /\ \/ rooms'[id] = Append(rooms[id], ErrorEvent(id))
                   \/ rooms'[id] = rooms[id]]_vars

\* A publication failed after a provider result was stored: the job ended with
\* status "error", the message, the result and a query_error event.
C20_FaultAfterStoredResult ==
    \E id \in DOMAIN threads :
        /\ threads[id].pc = "done"
        /\ threads[id].e = Some(EmitError)
        /\ ErrorRecorded(query_results[id], EmitError)
        /\ query_results[id].results # <<>>
        /\ EventsOf(id, "provider_complete") = {}
        /\ rooms[id][Len(rooms[id])] = ErrorEvent(id)


-----------------------------------------------------------------------------
(* Properties of concurrent reads, the history and the frame of a job *)

\* A record in the middle of an update: status "error" not yet followed by the
\* message (app.py:214-215), or the analysis map created and still without the
\* analysis it was created for (app.py:192-194).
PartlyWritten(job) ==
    \/ job.status = "error" /\ "error" \notin DOMAIN job
    \/ job.analysis = Some(<<>>)

\* C21: a result lookup that runs between the steps of the job's flow answers
\* with the record as it was before an update or after the whole update, never
\* with status "error" and no message or with an analysis map that has no key.
C21_ReadsSeeWholeUpdates ==
    (Answered("get_results") /\ response.status = 200) => ~PartlyWritten(response.body)

\* A lookup answered with status "error" and no error field.
C21_ReadSawErrorWithoutMessage ==
    /\ Answered("get_results")
    /\ response.status = 200
    /\ response.body.status = "error"
    /\ "error" \notin DOMAIN response.body
    /\ threads[response.request.query_id].pc = "except_error"


\* C22: the history lookup answers with min(20, number of jobs) jobs of the
\* store, each once, ordered by timestamp with the newest first; every job it
\* leaves out has a timestamp no later than that of every job it returns; and
\* the store is left as it was.
C22_HistoryNewestFirst ==
    [][(response = NoAnswer /\ response' # NoAnswer /\ response'.op = "get_history") =>
          LET history == response'.body.queries
              returned == {history[i].id : i \in DOMAIN history}
          IN  /\ query_results' = query_results
              /\ Len(history) = Min(20, Cardinality(DOMAIN query_results))
              /\ Cardinality(returned) = Len(history)
              /\ \A i \in DOMAIN history :
                    /\ history[i].id \in DOMAIN query_results
                    /\ history[i] = query_results[history[i].id]
              /\ \A i, j \in DOMAIN history :
                    i < j => history[i].timestamp >= history[j].timestamp
              /\ \A id \in DOMAIN query_results \ returned :
                    \A i \in DOMAIN history :
                        query_results[id].timestamp <= history[i].timestamp]_vars

\* The lookup left out jobs of a store whose jobs were not inserted in the
\* order of their timestamps.
C22_OldestJobsLeftOut ==
    /\ Answered("get_history")
    /\ Cardinality(DOMAIN query_results) = MaxHistoryJobs
    /\ Len(response.body.queries) = HistoryLimit
    /\ \E i \in DOMAIN query_results : 
          /\ i + 1 \in DOMAIN query_results
          /\ query_results[i].timestamp > query_results[i + 1].timestamp
    /\ response.body.queries[1].timestamp > response.body.queries[HistoryLimit].timestamp


\* C23: a submission that is accepted puts the record in the store, with
\* status "processing", in the step that starts the thread and answers with
\* the identifier; no thread runs for an identifier without a record, no
\* record leaves the store, and a result lookup for an identifier that has a
\* thread answers 200.
C23_RegisteredBeforeStart ==
    [][/\ DOMAIN threads' \subseteq DOMAIN query_results'
       /\ DOMAIN query_results \subseteq DOMAIN query_results'
       /\ (/\ response' # NoAnswer
           /\ response'.op = "submit_query"
           /\ response'.status = 200) =>
              LET id == response'.body.query_id
              IN  /\ id \in DOMAIN query_results'
                  /\ id \notin DOMAIN query_results
                  /\ query_results'[id].status = "processing"
                  /\ id \in DOMAIN threads'
                  /\ threads'[id].pc = "start"
       /\ (/\ response = NoAnswer
           /\ response' # NoAnswer
           /\ response'.op = "get_results"
           /\ response'.request.query_id \in DOMAIN threads) =>
              /\ response'.status = 200
              /\ response'.body = query_results[response'.request.query_id]]_vars

\* A result lookup for a job whose thread has not taken a step answered 200.
C23_LookupRightAfterSubmission ==
    /\ Answered("get_results")
    /\ response.status = 200
    /\ response.request.query_id \in DOMAIN threads
    /\ threads[response.request.query_id].pc = "start"
    /\ response.body.status = "processing"


\* The providers a job holds an analysis for, and those whose stored result is
\* a success and that are not the search provider.
AnalysisKeys(id) ==
    IF IsNone(query_results[id].analysis) THEN {}
    ELSE DOMAIN Val(query_results[id].analysis)
SucceededChat(id) ==
    {P \in DOMAIN query_results[id].results \ {"google_search"} :
        LET r == query_results[id].results[P]
        IN  "success" \in DOMAIN r /\ r.success = TRUE}

\* C24: the keys of a job's analysis map are providers whose stored result is
\* a success and that are not google_search; when a job whose analyzer is
\* enabled is "completed", the keys are exactly those providers.
C24_AnalysisKeysAreSuccesses ==
    \A id \in DOMAIN query_results :
        /\ AnalysisKeys(id) \subseteq SucceededChat(id)
        /\ (/\ query_results[id].status = "completed"
            /\ threads[id].analyzer.analyze_enabled)
              => AnalysisKeys(id) = SucceededChat(id)

\* A provider named twice succeeded and was analyzed, then failed: the job
\* completed with an analysis for a provider whose stored result is a failure.
C24_AnalysisOfFailedProvider ==
    \E id \in DOMAIN query_results :
        /\ query_results[id].status = "completed"
        /\ threads[id].args.selected_providers = Some(<<"openai", "openai">>)
        /\ "openai" \in AnalysisKeys(id)
        /\ "error" \in DOMAIN query_results[id].results["openai"]


\* C28: a provider's result, once in the results map, stays there with the
\* value it has, also when the caller's list names the provider twice; the
\* job's id, prompt and timestamp stay as they are and the job stays in the
\* store.
C28_ResultsWrittenOnce ==
    [][\A id \in DOMAIN query_results :
          /\ id \in DOMAIN query_results'
          /\ query_results'[id].id = query_results[id].id
          /\ query_results'[id].query = query_results[id].query
          /\ query_results'[id].timestamp = query_results[id].timestamp
          /\ \A P \in DOMAIN query_results[id].results :
                /\ P \in DOMAIN query_results'[id].results
                /\ query_results'[id].results[P] = query_results[id].results[P]]_vars

\* The success published for a provider named twice is no longer the stored
\* result: the second call failed and its failure took the place.
C28_SuccessReplacedByFailure ==
    \E id \in DOMAIN query_results :
        /\ threads[id].args.selected_providers = Some(<<"openai", "openai">>)
        /\ "openai" \in DOMAIN query_results[id].results
        /\ "error" \in DOMAIN query_results[id].results["openai"]
        /\ \E k \in EventsOf(id, "provider_complete") :
              /\ rooms[id][k].provider = "openai"
              /\ "response" \in DOMAIN rooms[id][k].result


\* The event that this step publishes in the room of job id.
Published(id) == rooms'[id][Len(rooms'[id])]

\* C25: an event is published when the store already holds what it reports:
\* provider_complete carries the result stored for its provider,
\* analysis_complete the analysis stored for its provider, and query_complete
\* is published for a "completed" job and carries the whole record, every
\* stored result included.
C25_EventsReportStoredState ==
    [][\A id \in JobIds :
          rooms'[id] # rooms[id] =>
            /\ rooms'[id] = Append(rooms[id], Published(id))
            /\ id \in DOMAIN query_results
            /\ query_results'[id] = query_results[id]
            /\ Published(id).event = "provider_complete" =>
                  /\ Published(id).provider \in DOMAIN query_results[id].results
                  /\ query_results[id].results[Published(id).provider]
                        = Published(id).result
            /\ Published(id).event = "analysis_complete" =>
                  /\ Published(id).provider \in AnalysisKeys(id)
                  /\ Val(query_results[id].analysis)[Published(id).provider]
                        = Published(id).analysis
            /\ Published(id).event = "query_complete" =>
                  /\ query_results[id].status = "completed"
                  /\ Published(id).results = query_results[id]]_vars

\* query_complete was published with a record that holds a result and an
\* analysis, after the events of both.
C25_CompleteCarriesRecord ==
    \E id \in DOMAIN query_results :
        /\ rooms[id] # <<>>
        /\ rooms[id][Len(rooms[id])].event = "query_complete"
        /\ rooms[id][Len(rooms[id])].results = query_results[id]
        /\ AnalysisKeys(id) # {}
        /\ EventsOf(id, "provider_complete") # {}
        /\ EventsOf(id, "analysis_complete") # {}


\* C26: a step of the flow of one job leaves the record and the room of every
\* other job as they are, and every event in a room is an event of that
\* room's job.
C26_FlowsWriteOwnEntry ==
    [][/\ \A A \in DOMAIN threads :
            threads'[A] # threads[A] =>
                \A B \in JobIds \ {A} :
                    /\ rooms'[B] = rooms[B]
                    /\ B \in DOMAIN query_results =>
                          /\ query_results'[B] = query_results[B]
                          /\ threads'[B] = threads[B]
       /\ \A id \in JobIds :
            \A k \in DOMAIN rooms'[id] : rooms'[id][k].query_id = id]_vars

\* Both jobs completed side by side, each with its own result and events, the
\* second before the first.
C26_BothJobsCompleted ==
    /\ DOMAIN threads = {1, 2}
    /\ threads[1].pc = "call"
    /\ query_results[1].status = "processing"
    /\ query_results[2].status = "completed"
    /\ query_results[2].results # <<>>
    /\ rooms[1] # <<>>
    /\ rooms[2] # <<>>


\* The query_complete and query_error events in the room of job id.
TerminalEvents(id) == EventsOf(id, "query_complete") \cup EventsOf(id, "query_error")

\* Every job of the store comes to the end of its flow with status "completed"
\* or "error".
EveryJobEnds ==
    \A id \in JobIds :
        (id \in DOMAIN query_results) ~>
            (/\ id \in DOMAIN threads
             /\ threads[id].pc = "done"
             /\ query_results[id].status \in Terminal)

\* C27, as the specification states it: every submitted job comes to
\* "completed" or "error", and exactly one of query_complete and query_error
\* has been published for it when its flow has ended.
C27_EndsWithOneTerminalEvent ==
    /\ EveryJobEnds
    /\ [](\A id \in DOMAIN threads :
            /\ Cardinality(TerminalEvents(id)) <= 1
            /\ threads[id].pc = "done" => Cardinality(TerminalEvents(id)) = 1)

\* C27, amended: every submitted job comes to "completed" or "error" and at
\* most one of query_complete and query_error is published for it, as the last
\* event of its room: query_complete when the flow ended without an exception,
\* and otherwise query_error or, when its publication raised, neither.
C27_EndsWithAtMostOneTerminalEvent ==
    /\ EveryJobEnds
    /\ [](\A id \in DOMAIN threads :
            /\ Cardinality(TerminalEvents(id)) <= 1
            /\ TerminalEvents(id) \subseteq {Len(rooms[id])}
            /\ threads[id].pc = "done" =>
                  IF IsNone(threads[id].e)
                  THEN /\ EventsOf(id, "query_complete") = {Len(rooms[id])}
                       /\ query_results[id].status = "completed"
                  ELSE /\ EventsOf(id, "query_complete") = {}
                       /\ query_results[id].status = "error")

\* The publication of query_complete raised: the job ended with query_error
\* as its one terminal event.
C27_EndedWithQueryError ==
    \E id \in DOMAIN threads :
        /\ threads[id].pc = "done"
        /\ threads[id].e = Some(EmitError)
        /\ EventsOf(id, "provider_complete") # {}
        /\ EventsOf(id, "query_error") = {Len(rooms[id])}
        /\ EventsOf(id, "query_complete") = {}


\* C29: a job record carries an error description only when its status is
\* "error"; no job with status "processing" or "completed" has the error field.
C29_ErrorOnlyWithStatusError ==
    \A id \in DOMAIN query_results :
        "error" \in DOMAIN query_results[id] =>
            query_results[id].status = "error"

\* The handler of an escaped exception has written the message of the
\* exception into the record of a job that had stored a result.
C29_ErrorDescriptionWritten ==
    \E id \in DOMAIN threads :
        /\ threads[id].pc = "query_error"
        /\ "error" \in DOMAIN query_results[id]
        /\ query_results[id].error = Val(threads[id].e)
        /\ query_results[id].results # <<>>


\* C30: the analysis_enabled flag that the providers endpoint answers is what
\* the analyzer of a job submitted in the same environment would have as
\* analyze_enabled, the flag that the flow tests before it analyses a
\* successful result of a provider other than google_search.
C30_ReportedFlagIsAnalyzerFlag ==
    (response # NoAnswer /\ response.op = "get_providers") =>
        (response.body.analysis_enabled
            <=> NewAnalyzer(load_dotenv(environ, dotenv)).analyze_enabled)

\* With ANALYZE_RESPONSES unset the endpoint answers that analysis is enabled
\* while a job has completed with a successful openai result and no analysis.
C30_ReportedEnabledButNotAnalysed ==
    /\ response # NoAnswer
    /\ response.op = "get_providers"
    /\ response.body.analysis_enabled
    /\ IsNone(getenv(environ, "ANALYZE_RESPONSES"))
    /\ \E id \in DOMAIN threads :
        /\ threads[id].pc = "done"
        /\ query_results[id].status = "completed"
        /\ "openai" \in DOMAIN query_results[id].results
        /\ query_results[id].results["openai"].success
        /\ IsNone(query_results[id].analysis)
        /\ ~threads[id].analyzer.analyze_enabled

====
